---------------------------- MODULE Spec2Model ----------------------------
(***************************************************************************)
(* Model of the boolean filter engine (unified/query/filter_engine.py) and *)
(* of the Query object built on it (unified/query/query.py).                *)
(*                                                                         *)
(* Strings are sequences of one-character strings.  The lexer keeps a      *)
(* position into the text (1-based here; current_char is None exactly when *)
(* the position is past the end), the parser keeps its current token and   *)
(* the lexer position, and a tree is a record tagged by its node class.    *)
(***************************************************************************)
EXTENDS Integers, Sequences, FiniteSets, TLC

VARIABLES
    terms,      \* Query.terms: the raw term strings
    compiled,   \* Query._compiled_terms: the trees
    op,         \* the last Query method called
    arg,        \* its argument
    ret,        \* what it returned
    expr,       \* parse_expression / evaluate_expression: the expression
    text,       \* the text evaluated
    pc,         \* "start" -> "parsed" -> "done"
    pres,       \* the parser's outcome
    val,        \* the value evaluate returned
    tnode,      \* a TermNode built by its constructor
    ttext,      \* the text it is evaluated on
    tpc,        \* "built" -> "evaluated"
    tval,       \* what TermNode.evaluate returned
    name,       \* Query.name
    description, \* Query.description
    categories, \* Query.categories
    threads,    \* the evaluations running concurrently on the Query
    queries,    \* QueryCollection.queries: identifier -> Query
    cop,        \* the last QueryCollection operation called
    carg,       \* its arguments
    cret,       \* what it returned
    ltext,      \* FilterLexer.text
    lpos,       \* FilterLexer.pos (1-based)
    ltoks,      \* the tokens get_next_token has returned so far
    fs,         \* the output directory: file name -> articles of the file
    dd,         \* the deduplication script: last operation and its result
    arx         \* ArxivAPI.search_recent: its locals and the pages served

queryVars == <<terms, compiled, op, arg, ret>>
engineVars == <<expr, text, pc, pres, val>>
termVars == <<tnode, ttext, tpc, tval>>
metaVars == <<name, description, categories>>
collVars == <<queries, cop, carg, cret>>
lexVars == <<ltext, lpos, ltoks>>
ioVars == <<fs, dd, arx>>
vars == <<queryVars, engineVars, termVars, metaVars, threads, collVars, lexVars, ioVars>>

(***************************************************************************)
(* Bounds of the model.                                                    *)
(***************************************************************************)
MaxTerms == 3
MaxPieces == 4
MaxTermLen == 2
MaxTextLen == 4

(***************************************************************************)
(* Characters.                                                             *)
(***************************************************************************)
DQ == "\""

UpperLetters == <<"A","B","C","D","E","F","G","H","I","J","K","L","M",
                  "N","O","P","Q","R","S","T","U","V","W","X","Y","Z">>
LowerLetters == <<"a","b","c","d","e","f","g","h","i","j","k","l","m",
                  "n","o","p","q","r","s","t","u","v","w","x","y","z">>
Digits == {"0","1","2","3","4","5","6","7","8","9"}

Range(s) == {s[i] : i \in 1..Len(s)}

\* str.isspace() on one character
IsSpace(c) == c \in {" ", "\t", "\n", "\r"}

UpperSet == Range(UpperLetters)
LowerSet == Range(LowerLetters)
AlnumSet == UpperSet \cup LowerSet \cup Digits

\* str.isalnum() on one character
IsAlnum(c) == c \in AlnumSet

\* the characters read_word accepts
IsWordStart(c) == IsAlnum(c) \/ c \in {"-", "_", "."}

\* the regular expression class \w, which \b is defined by
IsRegexWordChar(c) == IsAlnum(c) \/ c = "_"

\* str.lower() / str.upper() on one character
LowerChar(c) ==
    IF c \in UpperSet
    THEN LowerLetters[CHOOSE i \in 1..Len(UpperLetters) : UpperLetters[i] = c]
    ELSE c
UpperChar(c) ==
    IF c \in LowerSet
    THEN UpperLetters[CHOOSE i \in 1..Len(LowerLetters) : LowerLetters[i] = c]
    ELSE c

StrLower(s) == [i \in 1..Len(s) |-> LowerChar(s[i])]
StrUpper(s) == [i \in 1..Len(s) |-> UpperChar(s[i])]

(***************************************************************************)
(* FilterLexer.  A lexer state is the position pos; the text never changes.*)
(***************************************************************************)
Token(type, value) == [type |-> type, value |-> value]

AtEnd(s, pos) == pos > Len(s)

RECURSIVE skip_whitespace(_, _)
skip_whitespace(s, pos) ==
    IF ~AtEnd(s, pos) /\ IsSpace(s[pos])
    THEN skip_whitespace(s, pos + 1)
    ELSE pos

\* the characters from pos up to the next double quote or the end
RECURSIVE PhraseEnd(_, _)
PhraseEnd(s, pos) ==
    IF ~AtEnd(s, pos) /\ s[pos] # DQ THEN PhraseEnd(s, pos + 1) ELSE pos

\* faulty variant of read_phrase: the closing quote is not skipped
read_phrase_keep_quote(s, pos) ==
    [value |-> SubSeq(s, pos + 1, PhraseEnd(s, pos + 1) - 1),
     pos |-> PhraseEnd(s, pos + 1)]

read_phrase(s, pos) ==
    LET start == pos + 1              \* skip opening quote
        stop == PhraseEnd(s, start)
    IN  [value |-> SubSeq(s, start, stop - 1),
         pos |-> IF ~AtEnd(s, stop) /\ s[stop] = DQ THEN stop + 1 ELSE stop]

RECURSIVE WordEnd(_, _)
WordEnd(s, pos) ==
    IF ~AtEnd(s, pos) /\ IsWordStart(s[pos]) THEN WordEnd(s, pos + 1) ELSE pos

read_word(s, pos) ==
    LET stop == WordEnd(s, pos)
    IN  [value |-> SubSeq(s, pos, stop - 1), pos |-> stop]

\* faulty variant of WordToken: the run is compared without upper-casing
WordToken_case_sensitive(r) ==
    IF r.value = <<"A","N","D">>
    THEN [tok |-> Token("AND", <<"A","N","D">>), pos |-> r.pos]
    ELSE IF r.value = <<"O","R">>
    THEN [tok |-> Token("OR", <<"O","R">>), pos |-> r.pos]
    ELSE IF r.value = <<"N","O","T">>
    THEN [tok |-> Token("NOT", <<"N","O","T">>), pos |-> r.pos]
    ELSE [tok |-> Token("WORD", r.value), pos |-> r.pos]

\* the token read_word's run makes: an operator when the whole run,
\* upper-cased, is AND, OR or NOT, a WORD otherwise
WordToken(r) ==
    IF StrUpper(r.value) = <<"A","N","D">>
    THEN [tok |-> Token("AND", <<"A","N","D">>), pos |-> r.pos]
    ELSE IF StrUpper(r.value) = <<"O","R">>
    THEN [tok |-> Token("OR", <<"O","R">>), pos |-> r.pos]
    ELSE IF StrUpper(r.value) = <<"N","O","T">>
    THEN [tok |-> Token("NOT", <<"N","O","T">>), pos |-> r.pos]
    ELSE [tok |-> Token("WORD", r.value), pos |-> r.pos]

PhraseToken(r) == [tok |-> Token("PHRASE", r.value), pos |-> r.pos]

\* faulty variant of get_next_token: a character that starts no token is
\* emitted as a WORD
RECURSIVE get_next_token_emit_unknown(_, _)
get_next_token_emit_unknown(s, pos) ==
    IF AtEnd(s, pos) THEN [tok |-> Token("EOF", <<>>), pos |-> pos]
    ELSE IF IsSpace(s[pos])
    THEN get_next_token_emit_unknown(s, skip_whitespace(s, pos))
    ELSE IF s[pos] = DQ THEN PhraseToken(read_phrase(s, pos))
    ELSE IF s[pos] = "(" THEN [tok |-> Token("LPAREN", <<"(">>), pos |-> pos + 1]
    ELSE IF s[pos] = ")" THEN [tok |-> Token("RPAREN", <<")">>), pos |-> pos + 1]
    ELSE IF IsWordStart(s[pos]) THEN WordToken(read_word(s, pos))
    ELSE [tok |-> Token("WORD", <<s[pos]>>), pos |-> pos + 1]

RECURSIVE get_next_token(_, _)
get_next_token(s, pos) ==
    IF AtEnd(s, pos) THEN [tok |-> Token("EOF", <<>>), pos |-> pos]
    ELSE IF IsSpace(s[pos]) THEN get_next_token(s, skip_whitespace(s, pos))
    ELSE IF s[pos] = DQ THEN PhraseToken(read_phrase(s, pos))
    ELSE IF s[pos] = "(" THEN [tok |-> Token("LPAREN", <<"(">>), pos |-> pos + 1]
    ELSE IF s[pos] = ")" THEN [tok |-> Token("RPAREN", <<")">>), pos |-> pos + 1]
    ELSE IF IsWordStart(s[pos]) THEN WordToken(read_word(s, pos))
    ELSE get_next_token(s, pos + 1)       \* skip unknown characters

\* every token the lexer yields from pos on, the EOF token excluded
RECURSIVE TokensFrom(_, _)
TokensFrom(s, pos) ==
    LET r == get_next_token(s, pos)
    IN  IF r.tok.type = "EOF" THEN <<>>
        ELSE <<r.tok>> \o TokensFrom(s, r.pos)

Tokens(s) == TokensFrom(s, 1)

(***************************************************************************)
(* The trees.                                                              *)
(***************************************************************************)
NoneNode == [kind |-> "None"]
TermNode(term, is_phrase) == [kind |-> "Term", term |-> term, is_phrase |-> is_phrase]
NotNode(operand) == [kind |-> "Not", operand |-> operand]
AndNode(left, right) == [kind |-> "And", left |-> left, right |-> right]
OrNode(left, right) == [kind |-> "Or", left |-> left, right |-> right]

(***************************************************************************)
(* FilterParser.  A parser state is [tok, pos]: the current token and the  *)
(* lexer's position.  Every parsing method returns [err, node, tok, pos];  *)
(* err is TRUE when the method raised SyntaxError.                         *)
(***************************************************************************)
Raised == [err |-> TRUE, node |-> NoneNode, tok |-> Token("EOF", <<>>), pos |-> 0]
Ok(node, tok, pos) == [err |-> FALSE, node |-> node, tok |-> tok, pos |-> pos]

\* FilterParser.__init__: the first token is read at construction
FilterParser(s) == get_next_token(s, 1)

\* the parser state once the lexer has returned r
NextToken(r) == Ok(NoneNode, r.tok, r.pos)

eat(s, p, token_type) ==
    IF p.tok.type = token_type
    THEN NextToken(get_next_token(s, p.pos))
    ELSE Raised

RECURSIVE or_expr(_, _)
RECURSIVE and_expr(_, _)
RECURSIVE not_expr(_, _)
RECURSIVE primary(_, _)
RECURSIVE or_loop(_, _)
RECURSIVE and_loop(_, _)
RECURSIVE OrRight(_, _, _)
RECURSIVE AndRight(_, _, _)

\* the while loop of or_expr, r holding node and the parser state
or_loop(s, r) ==
    IF r.err THEN r
    ELSE IF r.tok.type = "OR"
    THEN OrRight(s, r.node, and_expr(s, eat(s, r, "OR")))
    ELSE r

\* node = OrNode(node, self.and_expr()), right being what and_expr returned
OrRight(s, node, right) ==
    IF right.err THEN Raised
    ELSE or_loop(s, Ok(OrNode(node, right.node), right.tok, right.pos))

or_expr(s, p) == or_loop(s, and_expr(s, p))

and_loop(s, r) ==
    IF r.err THEN r
    ELSE IF r.tok.type = "AND"
    THEN AndRight(s, r.node, not_expr(s, eat(s, r, "AND")))
    ELSE r

\* node = AndNode(node, self.not_expr()), right being what not_expr returned
AndRight(s, node, right) ==
    IF right.err THEN Raised
    ELSE and_loop(s, Ok(AndNode(node, right.node), right.tok, right.pos))

and_expr(s, p) == and_loop(s, not_expr(s, p))

\* return NotNode(self.not_expr())
NotOf(r) == IF r.err THEN Raised ELSE Ok(NotNode(r.node), r.tok, r.pos)

\* faulty variant of not_expr: NOT takes the whole conjunction that follows
\* as its operand
not_expr_loose(s, p) ==
    IF p.tok.type = "NOT"
    THEN NotOf(and_expr(s, eat(s, p, "NOT")))
    ELSE primary(s, p)

not_expr(s, p) ==
    IF p.tok.type = "NOT"
    THEN NotOf(not_expr(s, eat(s, p, "NOT")))
    ELSE primary(s, p)

\* return TermNode(token.value, is_phrase), e being the state after eat
TermOf(token, is_phrase, e) == Ok(TermNode(token.value, is_phrase), e.tok, e.pos)

\* return node, e being what eat(RPAREN) returned
ParenNode(node, e) == IF e.err THEN Raised ELSE Ok(node, e.tok, e.pos)

\* self.eat(TokenType.RPAREN), r being what or_expr returned
CloseParen(s, r) ==
    IF r.err THEN Raised ELSE ParenNode(r.node, eat(s, r, "RPAREN"))

primary(s, p) ==
    IF p.tok.type = "PHRASE" THEN TermOf(p.tok, TRUE, eat(s, p, "PHRASE"))
    ELSE IF p.tok.type = "WORD" THEN TermOf(p.tok, FALSE, eat(s, p, "WORD"))
    ELSE IF p.tok.type = "LPAREN"
    THEN CloseParen(s, or_expr(s, eat(s, p, "LPAREN")))
    ELSE Raised

\* FilterParser.parse
\* faulty variant of parse: no test for EOF before or_expr
parse_no_eof_test(s, p) == or_expr(s, p)

parse(s, p) ==
    IF p.tok.type = "EOF" THEN Ok(NoneNode, p.tok, p.pos)
    ELSE or_expr(s, p)

parse_expression(expression) == parse(expression, FilterParser(expression))


(***************************************************************************)
(* evaluate.                                                               *)
(***************************************************************************)
\* Python's `x in y` on strings: x occurs in y as a contiguous run
RECURSIVE FindFrom(_, _, _)
FindFrom(x, y, i) ==
    IF i + Len(x) - 1 > Len(y) THEN FALSE
    ELSE IF SubSeq(y, i, i + Len(x) - 1) = x THEN TRUE
    ELSE FindFrom(x, y, i + 1)

StrIn(x, y) == FindFrom(x, y, 1)

\* the regular expression assertion \b at the gap after the first k
\* characters of y: exactly one of the two neighbours is a \w character
WordBoundary(y, k) ==
    LET before == k >= 1 /\ IsRegexWordChar(y[k])
        after == k < Len(y) /\ IsRegexWordChar(y[k + 1])
    IN  before # after

\* re.search(r'\b' + re.escape(x) + r'\b', y): the escaped term matches
\* itself only
WordSearch(x, y) ==
    \E i \in 1..(Len(y) - Len(x) + 1) :
        /\ SubSeq(y, i, i + Len(x) - 1) = x
        /\ WordBoundary(y, i - 1)
        /\ WordBoundary(y, i + Len(x) - 1)

\* faulty variant of TermNode.evaluate: a phrase is matched at word
\* boundaries like a word
TermEvaluateBounded(node, t) == WordSearch(StrLower(node.term), StrLower(t))

\* TermNode.evaluate
TermEvaluate(node, t) ==
    LET text_lower == StrLower(t)
        term_lower == StrLower(node.term)
    IN  IF node.is_phrase THEN StrIn(term_lower, text_lower)
        ELSE WordSearch(term_lower, text_lower)

RECURSIVE evaluate(_, _)

\* faulty variant of evaluate: AndNode evaluated as a disjunction
evaluate_and_as_or(node, t) ==
    CASE node.kind = "Term" -> TermEvaluate(node, t)
      [] node.kind = "Not" -> ~evaluate(node.operand, t)
      [] node.kind = "And" -> evaluate(node.left, t) \/ evaluate(node.right, t)
      [] node.kind = "Or" -> evaluate(node.left, t) \/ evaluate(node.right, t)

evaluate(node, t) ==
    CASE node.kind = "Term" -> TermEvaluate(node, t)
      [] node.kind = "Not" -> ~evaluate(node.operand, t)
      [] node.kind = "And" -> evaluate(node.left, t) /\ evaluate(node.right, t)
      [] node.kind = "Or" -> evaluate(node.left, t) \/ evaluate(node.right, t)

\* evaluate_expression
\* if node: return node.evaluate(text), r being what parse_expression
\* returned (a SyntaxError propagates)
EvaluateParsed(t, r) ==
    IF r.err THEN [raised |-> TRUE, value |-> FALSE]
    ELSE IF r.node # NoneNode
    THEN [raised |-> FALSE, value |-> evaluate(r.node, t)]
    ELSE [raised |-> FALSE, value |-> FALSE]

evaluate_expression(t, expression) ==
    EvaluateParsed(t, parse_expression(expression))

(***************************************************************************)
(* Query.  The object is the pair (terms, _compiled_terms).                *)
(***************************************************************************)
\* Query._compile_terms: a term that raises SyntaxError or parses to None
\* adds nothing to the compiled list
\* what one term adds to the compiled list, r being what parse_expression
\* returned
CompiledOf(r) == IF ~r.err /\ r.node # NoneNode THEN <<r.node>> ELSE <<>>

\* faulty variant of _compile_terms: compilation stops at the first term
\* that does not give a tree
RECURSIVE _compile_terms_stop(_)
_compile_terms_stop(ts) ==
    IF ts = <<>> THEN <<>>
    ELSE IF CompiledOf(parse_expression(Head(ts))) = <<>> THEN <<>>
    ELSE CompiledOf(parse_expression(Head(ts))) \o _compile_terms_stop(Tail(ts))

RECURSIVE _compile_terms(_)
_compile_terms(ts) ==
    IF ts = <<>> THEN <<>>
    ELSE CompiledOf(parse_expression(Head(ts))) \o _compile_terms(Tail(ts))

\* the body of add_term's try, r being what parse_expression returned:
\* [terms, compiled, ret, raised]
AddParsed(ts, cs, term, r) ==
    IF ~r.err /\ r.node # NoneNode
    THEN [terms |-> Append(ts, term), compiled |-> Append(cs, r.node),
          ret |-> TRUE, raised |-> FALSE]
    ELSE [terms |-> ts, compiled |-> cs, ret |-> FALSE, raised |-> FALSE]

\* faulty variant of add_term: the raw term is appended before it is parsed
add_term_append_first(ts, cs, term) ==
    [AddParsed(ts, cs, term, parse_expression(term))
        EXCEPT !.terms = Append(ts, term)]

\* Query.add_term
add_term(ts, cs, term) == AddParsed(ts, cs, term, parse_expression(term))

\* list.index: the first position holding x
IndexOf(s, x) == CHOOSE i \in 1..Len(s) : s[i] = x /\ \A j \in 1..(i - 1) : s[j] # x

\* list.pop(idx), idx 1-based here
Pop(s, i) == SubSeq(s, 1, i - 1) \o SubSeq(s, i + 1, Len(s))

\* faulty variant of remove_term: the compiled list is left as it is
remove_term_keep_compiled(ts, cs, term) ==
    IF term \in Range(ts)
    THEN [terms |-> Pop(ts, IndexOf(ts, term)), compiled |-> cs, ret |-> TRUE]
    ELSE [terms |-> ts, compiled |-> cs, ret |-> FALSE]

\* faulty variant of remove_term: the last compiled tree is popped instead of
\* the one at the term's index
remove_term_pop_last(ts, cs, term) ==
    IF term \in Range(ts)
    THEN [terms |-> Pop(ts, IndexOf(ts, term)),
          compiled |-> IF cs # <<>> THEN Pop(cs, Len(cs)) ELSE cs,
          ret |-> TRUE]
    ELSE [terms |-> ts, compiled |-> cs, ret |-> FALSE]

\* Query.remove_term
remove_term(ts, cs, term) ==
    IF term \in Range(ts)
    THEN LET idx == IndexOf(ts, term)
         IN  [terms |-> Pop(ts, idx),
              compiled |-> IF idx <= Len(cs) THEN Pop(cs, idx) ELSE cs,
              ret |-> TRUE]
    ELSE [terms |-> ts, compiled |-> cs, ret |-> FALSE]

\* faulty variant of matches: no early return on the empty text
matches_unguarded(cs, t) == \E i \in 1..Len(cs) : evaluate(cs[i], t)

\* Query.matches
matches(cs, t) ==
    IF t = <<>> THEN FALSE
    ELSE \E i \in 1..Len(cs) : evaluate(cs[i], t)

\* Query.get_matching_terms: [raised, value]; terms[i] raises IndexError
\* when the compiled list is longer than terms
RECURSIVE MatchingFrom(_, _, _, _)
MatchingFrom(ts, cs, t, i) ==
    IF i > Len(cs) THEN [raised |-> FALSE, value |-> <<>>]
    ELSE IF evaluate(cs[i], t)
    THEN IF i > Len(ts) THEN [raised |-> TRUE, value |-> <<>>]
         ELSE LET rest == MatchingFrom(ts, cs, t, i + 1)
              IN  [raised |-> rest.raised,
                   value |-> IF rest.raised THEN <<>> ELSE <<ts[i]>> \o rest.value]
    ELSE MatchingFrom(ts, cs, t, i + 1)

get_matching_terms(ts, cs, t) == MatchingFrom(ts, cs, t, 1)


(***************************************************************************)
(* Inputs.                                                                 *)
(***************************************************************************)
SeqsUpTo(S, n) == UNION {[1..k -> S] : k \in 0..n}

RECURSIVE Concat(_)
Concat(ps) == IF ps = <<>> THEN <<>> ELSE Head(ps) \o Concat(Tail(ps))

\* Term strings given to a Query: a phrase, the negation of a word, an
\* unmatched parenthesis (SyntaxError) and the empty expression (None)
TermAI == <<DQ, "A", "I", DQ>>
TermNotAi == <<"N", "O", "T", " ", "a", "i">>
TermBad == <<"(">>
TermEmpty == <<>>
TermPool == {TermAI, TermNotAi, TermBad, TermEmpty}

QueryTexts ==
    { <<>>,
      <<"a", "i">>,
      <<"m", "l">>,
      <<"s", "a", "i", "d">> }

\* Pieces an expression is put together from
PieceA == <<"a">>
PieceB == <<DQ, "b", DQ>>
PieceC == <<"c">>
PieceAnd == <<" ", "A", "N", "D", " ">>
PieceOr == <<" ", "o", "r", " ">>
PieceNot == <<"N", "O", "T", " ">>
PieceL == <<"(">>
PieceR == <<")">>
Pieces == {PieceA, PieceB, PieceAnd, PieceOr, PieceNot, PieceL, PieceR}
TermPieces == {PieceA, PieceB, PieceC}

\* The five expressions the precedence rules are stated on
OrAnd(a, b, c) == a \o PieceOr \o b \o PieceAnd \o c
OrParAnd(a, b, c) == a \o PieceOr \o PieceL \o b \o PieceAnd \o c \o PieceR
ParOrAnd(a, b, c) == PieceL \o a \o PieceOr \o b \o PieceR \o PieceAnd \o c
NotAnd(a, b) == PieceNot \o a \o PieceAnd \o b
ParNotAnd(a, b) == PieceL \o PieceNot \o a \o PieceR \o PieceAnd \o b

PrecedenceExprs ==
    UNION { {OrAnd(a, b, c), OrParAnd(a, b, c), ParOrAnd(a, b, c)}
            : a \in TermPieces, b \in TermPieces, c \in TermPieces }
    \cup UNION { {NotAnd(a, b), ParNotAnd(a, b)}
                 : a \in TermPieces, b \in TermPieces }

ExprPool == {Concat(ps) : ps \in SeqsUpTo(Pieces, MaxPieces)} \cup PrecedenceExprs

EngineTexts ==
    { <<>>, <<"a">>, <<"b">>, <<"c">>,
      <<"a", " ", "b">>, <<"a", " ", "c">>, <<"b", " ", "c">>,
      <<"a", " ", "b", " ", "c">> }

\* Terms and texts a TermNode is evaluated on
TermChars == {"a", "A", "-"}
TextChars == {"a", "A", " ", "-"}
WordAI == <<"A", "I">>
PhraseML == <<"M","a","c","h","i","n","e"," ","L","e","a","r","n","i","n","g">>
TextSaid == <<"S","A","I","D"," ","h","i">>
TextGreat == <<"A","I"," ","i","s"," ","g","r","e","a","t">>
TextStudy == <<"I"," ","s","t","u","d","y"," ","m","a","c","h","i","n","e"," ",
               "l","e","a","r","n","i","n","g",".">>
TermStrings == (SeqsUpTo(TermChars, MaxTermLen) \ {<<>>}) \cup {WordAI, PhraseML}
TextStrings == SeqsUpTo(TextChars, MaxTextLen) \cup {TextSaid, TextGreat, TextStudy}

NoResult == [raised |-> FALSE, value |-> FALSE]

(***************************************************************************)
(* Spec: a Query after construction, under add_term, remove_term, matches  *)
(* and get_matching_terms.                                                 *)
(***************************************************************************)
EngineIdle ==
    /\ expr = <<>> /\ text = <<>> /\ pc = "idle" /\ pres = Raised /\ val = FALSE
TermIdle ==
    /\ tnode = NoneNode /\ ttext = <<>> /\ tpc = "idle" /\ tval = FALSE
QueryIdle ==
    /\ terms = <<>> /\ compiled = <<>> /\ op = "idle" /\ arg = <<>>
    /\ ret = NoResult
MetaIdle == name = <<>> /\ description = <<>> /\ categories = <<>>
ConcIdle == threads = <<>>
CollIdle == queries = <<>> /\ cop = "idle" /\ carg = <<>> /\ cret = <<>>
LexIdle == ltext = <<>> /\ lpos = 0 /\ ltoks = <<>>
IoIdle == fs = <<>> /\ dd = <<>> /\ arx = <<>>
OthersIdle == MetaIdle /\ ConcIdle /\ CollIdle /\ LexIdle /\ IoIdle
otherVars == <<metaVars, threads, collVars, lexVars, ioVars>>

\* Query.__post_init__ on the term list ts
Constructed(ts) ==
    /\ terms = ts
    /\ compiled = _compile_terms(ts)
    /\ op = "init" /\ arg = ts /\ ret = NoResult

Init ==
    /\ \E ts \in SeqsUpTo(TermPool, MaxTerms) : Constructed(ts)
    /\ EngineIdle /\ TermIdle /\ OthersIdle

AddTerm ==
    /\ Len(terms) < MaxTerms
    /\ \E t \in TermPool :
          LET r == add_term(terms, compiled, t)
          IN  /\ terms' = r.terms
              /\ compiled' = r.compiled
              /\ op' = "add_term" /\ arg' = t
              /\ ret' = [raised |-> r.raised, value |-> r.ret]
    /\ UNCHANGED <<engineVars, termVars, otherVars>>

RemoveTerm ==
    /\ \E t \in TermPool :
          LET r == remove_term(terms, compiled, t)
          IN  /\ terms' = r.terms
              /\ compiled' = r.compiled
              /\ op' = "remove_term" /\ arg' = t
              /\ ret' = [raised |-> FALSE, value |-> r.ret]
    /\ UNCHANGED <<engineVars, termVars, otherVars>>

Matches ==
    /\ \E t \in QueryTexts :
          /\ op' = "matches" /\ arg' = t
          /\ ret' = [raised |-> FALSE, value |-> matches(compiled, t)]
    /\ UNCHANGED <<terms, compiled, engineVars, termVars, otherVars>>

GetMatchingTerms ==
    /\ \E t \in QueryTexts :
          /\ op' = "get_matching_terms" /\ arg' = t
          /\ ret' = get_matching_terms(terms, compiled, t)
    /\ UNCHANGED <<terms, compiled, engineVars, termVars, otherVars>>

Next == AddTerm \/ RemoveTerm \/ Matches \/ GetMatchingTerms

Spec == Init /\ [][Next]_vars

(***************************************************************************)
(* SpecEngine: parse_expression on an expression, then evaluate on a text. *)
(***************************************************************************)
InitEngine ==
    /\ expr \in ExprPool
    /\ text \in EngineTexts
    /\ pc = "start" /\ pres = Raised /\ val = FALSE
    /\ QueryIdle /\ TermIdle /\ OthersIdle

Parse ==
    /\ pc = "start"
    /\ pres' = parse_expression(expr)
    /\ pc' = "parsed"
    /\ UNCHANGED <<expr, text, val, queryVars, termVars, otherVars>>

\* faulty variant of Evaluate: evaluating a NotNode leaves its operand in the
\* place of the tree
Evaluate_rewriting ==
    /\ pc \in {"parsed", "done"}
    /\ ~pres.err /\ pres.node # NoneNode
    /\ \E t \in EngineTexts :
          /\ pc = "parsed" => t = text
          /\ text' = t
          /\ val' = evaluate(pres.node, t)
    /\ pres' = IF pres.node.kind = "Not"
               THEN [pres EXCEPT !.node = pres.node.operand] ELSE pres
    /\ pc' = "done"
    /\ UNCHANGED <<expr, queryVars, termVars, otherVars>>

\* node.evaluate(text) on the parsed tree: first on the text given with the
\* expression, then again on that or any other text
Evaluate ==
    /\ pc \in {"parsed", "done"}
    /\ ~pres.err /\ pres.node # NoneNode
    /\ \E t \in EngineTexts :
          /\ pc = "parsed" => t = text
          /\ text' = t
          /\ val' = evaluate(pres.node, t)
    /\ pc' = "done"
    /\ UNCHANGED <<expr, pres, queryVars, termVars, otherVars>>

NextEngine == Parse \/ Evaluate

SpecEngine == InitEngine /\ [][NextEngine]_vars

(***************************************************************************)
(* SpecTerm: TermNode(term, is_phrase).evaluate(text).                     *)
(***************************************************************************)
InitTerm ==
    /\ \E w \in TermStrings, ph \in BOOLEAN : tnode = TermNode(w, ph)
    /\ ttext \in TextStrings
    /\ tpc = "built" /\ tval = FALSE
    /\ QueryIdle /\ EngineIdle /\ OthersIdle

EvaluateTerm ==
    /\ tpc = "built"
    /\ tval' = evaluate(tnode, ttext)
    /\ tpc' = "evaluated"
    /\ UNCHANGED <<tnode, ttext, queryVars, engineVars, otherVars>>

NextTerm == EvaluateTerm

SpecTerm == InitTerm /\ [][NextTerm]_vars


(***************************************************************************)
(* Properties.                                                             *)
(***************************************************************************)
\* whether a term string parses to a tree, and the tree
ParsesToTree(t) == CompiledOf(parse_expression(t)) # <<>>
TreeOf(t) == parse_expression(t).node

\* some compiled tree evaluates true on t
AnyTreeTrue(cs, t) == \E i \in 1..Len(cs) : evaluate(cs[i], t)

\* C1 (as stated): for every text, the empty string included, matches(text)
\* is true if and only if at least one compiled tree evaluates true on text.
C1_MatchesIffAnyTree ==
    op = "matches" => (ret.value <=> AnyTreeTrue(compiled, arg))

\* C1 (amended): on a non-empty text matches(text) is true if and only if at
\* least one compiled tree evaluates true on it; on the empty string it is
\* false whatever the trees evaluate to.
C1_MatchesNonEmptyText ==
    op = "matches" =>
        (ret.value <=> (arg # <<>> /\ AnyTreeTrue(compiled, arg)))

\* matches returned true on a non-empty text on which one compiled tree is
\* true and another is false
C1_Witness ==
    /\ op = "matches" /\ arg # <<>> /\ ret.value
    /\ \E i, j \in 1..Len(compiled) :
          evaluate(compiled[i], arg) /\ ~evaluate(compiled[j], arg)

\* the raw strings of the terms whose own parse evaluates true on t, in
\* their order in ts
OwnMatchingTerms(ts, t) ==
    SelectSeq(ts, LAMBDA x : ParsesToTree(x) /\ evaluate(TreeOf(x), t))

\* C2: after construction from any list of term strings and any add_term /
\* remove_term calls, get_matching_terms(text) returns exactly the raw
\* strings of the terms whose own parsed expression evaluates true on text,
\* in their order in terms.
C2_ReturnsOwnTerms ==
    op = "get_matching_terms" =>
        (~ret.raised /\ ret.value = OwnMatchingTerms(terms, arg))

\* C3: get_matching_terms called with the empty text returns the empty
\* list, whatever the terms.
C3_EmptyTextNoTerms ==
    (op = "get_matching_terms" /\ arg = <<>>) => ret.value = <<>>

\* C4: parse_expression returns a tree only if the whole token sequence up
\* to EOF was consumed: the parser's current token is EOF when it returns.
C4_WholeInputConsumed ==
    (pc # "start" /\ ~pres.err /\ pres.node # NoneNode) =>
        pres.tok.type = "EOF"

\* the number of ( tokens still open after toks[i..], depth being open before
RECURSIVE OpenParens(_, _, _)
OpenParens(toks, i, depth) ==
    IF i > Len(toks) THEN depth
    ELSE IF toks[i].type = "LPAREN" THEN OpenParens(toks, i + 1, depth + 1)
    ELSE IF toks[i].type = "RPAREN" /\ depth > 0
    THEN OpenParens(toks, i + 1, depth - 1)
    ELSE OpenParens(toks, i + 1, depth)

\* some ( has no matching )
UnmatchedLParen(toks) == OpenParens(toks, 1, 0) > 0

\* some AND, OR or NOT token is not followed by the start of an operand
\* (a phrase, a word, a parenthesis, or the NOT of one)
OperatorWithoutOperand(toks) ==
    \E i \in 1..Len(toks) :
        /\ toks[i].type \in {"AND", "OR", "NOT"}
        /\ \/ i = Len(toks)
           \/ toks[i + 1].type \notin {"PHRASE", "WORD", "LPAREN", "NOT"}

\* C5: parse_expression raises SyntaxError for every expression that has a
\* ( with no matching ) and for every expression in which an AND, OR or NOT
\* token is not followed by an operand.
C5_MalformedRaises ==
    (pc # "start"
     /\ (UnmatchedLParen(Tokens(expr)) \/ OperatorWithoutOperand(Tokens(expr))))
        => pres.err

\* expression e parses to a tree whose value on the text is v
EvaluatesTo(e, t, v) == ParsesToTree(e) /\ evaluate(TreeOf(e), t) = v

\* C6: NOT binds tighter than AND, AND tighter than OR: on every text
\* a OR b AND c evaluates as a OR (b AND c), NOT a AND b evaluates as
\* (NOT a) AND b, and on a text matching only a, a OR b AND c is true while
\* (a OR b) AND c is false.
C6_Precedence ==
    /\ (pc # "start" /\ expr \in PrecedenceExprs) => ParsesToTree(expr) /\ ~pres.err
    /\ pc = "done" =>
          \A a \in TermPieces, b \in TermPieces, c \in TermPieces :
             /\ expr = OrAnd(a, b, c) => EvaluatesTo(OrParAnd(a, b, c), text, val)
             /\ expr = NotAnd(a, b) => EvaluatesTo(ParNotAnd(a, b), text, val)
             /\ (/\ expr = OrAnd(a, b, c)
                 /\ EvaluatesTo(a, text, TRUE)
                 /\ EvaluatesTo(b, text, FALSE)
                 /\ EvaluatesTo(c, text, FALSE))
                   => val /\ EvaluatesTo(ParOrAnd(a, b, c), text, FALSE)

\* a OR "b" AND c was parsed and evaluated true on a text matching only a
C6_Witness ==
    /\ pc = "done" /\ expr = OrAnd(PieceA, PieceB, PieceC)
    /\ text = <<"a">> /\ val

\* C7: AndNode(l, r) evaluates to the conjunction of l and r, OrNode(l, r) to
\* their disjunction, NotNode(x) to the negation of x, on every text.
C7_Connectives ==
    pc = "done" =>
        /\ pres.node.kind = "And" =>
              (val <=> (evaluate(pres.node.left, text)
                        /\ evaluate(pres.node.right, text)))
        /\ pres.node.kind = "Or" =>
              (val <=> (evaluate(pres.node.left, text)
                        \/ evaluate(pres.node.right, text)))
        /\ pres.node.kind = "Not" =>
              (val <=> ~evaluate(pres.node.operand, text))

\* an AndNode with a true left and a false right operand was evaluated
C7_Witness ==
    /\ pc = "done" /\ pres.node.kind = "And"
    /\ evaluate(pres.node.left, text) /\ ~evaluate(pres.node.right, text)
    /\ ~val

\* x, lower-cased, occurs in y, lower-cased, right after its first i
\* characters
OccursAt(x, y, i) ==
    /\ i + Len(x) <= Len(y)
    /\ \A k \in 1..Len(x) : LowerChar(y[i + k]) = LowerChar(x[k])

\* C8: a phrase term is true on a text if and only if the lower-cased phrase
\* is a contiguous substring of the lower-cased text, with no word-boundary
\* requirement: "AI" is true on "SAID hi", "Machine Learning" on
\* "I study machine learning.".
C8_PhraseSubstring ==
    (tpc = "evaluated" /\ tnode.is_phrase) =>
        /\ tval <=> \E i \in 0..Len(ttext) : OccursAt(tnode.term, ttext, i)
        /\ (tnode.term = WordAI /\ ttext = TextSaid) => tval
        /\ (tnode.term = PhraseML /\ ttext = TextStudy) => tval

\* the phrase "AI" was evaluated true on "SAID hi"
C8_Witness ==
    /\ tpc = "evaluated" /\ tnode.is_phrase
    /\ tnode.term = WordAI /\ ttext = TextSaid /\ tval

\* a WORD token's value: a non-empty run of alphanumerics and - _ . that is
\* not AND, OR or NOT
IsLexerWord(w) ==
    /\ w # <<>>
    /\ \A k \in 1..Len(w) : IsWordStart(w[k])
    /\ StrUpper(w) \notin {<<"A","N","D">>, <<"O","R">>, <<"N","O","T">>}

\* x occurs in y as a whole token: at an occurrence with no letter, digit or
\* underscore right before it or right after it
WholeTokenAt(x, y, i) ==
    /\ OccursAt(x, y, i)
    /\ i = 0 \/ ~IsRegexWordChar(y[i])
    /\ i + Len(x) = Len(y) \/ ~IsRegexWordChar(y[i + Len(x) + 1])

\* C9: for every bare word the lexer can produce and every text, evaluate is
\* true if and only if the term occurs case-insensitively in the text as a
\* whole token; a term standing alone between spaces or at the ends of the
\* text matches.
C9_WordWholeToken ==
    (tpc = "evaluated" /\ ~tnode.is_phrase /\ IsLexerWord(tnode.term)) =>
        (tval <=> \E i \in 0..Len(ttext) : WholeTokenAt(tnode.term, ttext, i))

\* C10: add_term(term) returns true if and only if term parses to a tree;
\* then term is appended to terms and its tree to the compiled list; when it
\* returns false both lists are unchanged; no exception propagates.
C10_AddTerm ==
    [][op' = "add_term" =>
        /\ ~ret'.raised
        /\ ret'.value <=> ParsesToTree(arg')
        /\ ret'.value =>
              /\ terms' = Append(terms, arg')
              /\ compiled' = Append(compiled, TreeOf(arg'))
        /\ ~ret'.value => (terms' = terms /\ compiled' = compiled)]_vars

\* add_term returned true and its term is the last of at least two
C10_Witness ==
    /\ op = "add_term" /\ ret.value
    /\ Len(terms) >= 2 /\ terms[Len(terms)] = arg
    /\ compiled # <<>>


(***************************************************************************)
(* SpecValid: a Query constructed from terms that all parse to a tree,     *)
(* under the same operations as Spec.                                      *)
(***************************************************************************)
ParsingTerms == {t \in TermPool : ParsesToTree(t)}

InitValid ==
    /\ \E ts \in SeqsUpTo(ParsingTerms, MaxTerms) : Constructed(ts)
    /\ EngineIdle /\ TermIdle /\ OthersIdle

SpecValid == InitValid /\ [][Next]_vars

\* C11: for a Query constructed from terms that all parse, after any
\* sequence of add_term and remove_term calls the compiled list has the
\* length of terms and compiled[i] is the parse of terms[i] for every i.
C11_Aligned ==
    /\ Len(compiled) = Len(terms)
    /\ \A i \in 1..Len(terms) : compiled[i] = TreeOf(terms[i])

\* remove_term removed a term and left two different terms behind
C11_Witness ==
    /\ op = "remove_term" /\ ret.value
    /\ Len(terms) = 2 /\ terms[1] # terms[2]

\* some term still present in ts parses and its own tree is true on t
SomeTermTrue(ts, t) ==
    \E i \in 1..Len(ts) : ParsesToTree(ts[i]) /\ evaluate(TreeOf(ts[i]), t)

\* C12: for every Query, one constructed from a list with terms that failed
\* to parse included, after remove_term(t) returned true for a term t that
\* parsed, t's own tree is gone from the compiled list: matches(text) is
\* true only if some term still present in terms evaluates true on text.
C12_RemoveOwnTree ==
    (op = "remove_term" /\ ret.value /\ ParsesToTree(arg)) =>
        \A t \in QueryTexts : matches(compiled, t) => SomeTermTrue(terms, t)

\* the parses, in order, of the terms of ts that parse to a tree
ParsesOf(ts) ==
    LET sel == SelectSeq(ts, ParsesToTree)
    IN  [i \in 1..Len(sel) |-> TreeOf(sel[i])]

MaxConcTerms == 2
ThreadIds == {"t1", "t2"}
CallKinds == {"matches", "get_matching_terms"}

IdleThread ==
    [pc |-> "idle", kind |-> "none", text |-> <<>>, i |-> 0, acc |-> <<>>,
     ret |-> NoResult]

CallThread(kind, t) ==
    [pc |-> "start", kind |-> kind, text |-> t, i |-> 0, acc |-> <<>>,
     ret |-> NoResult]

Return(th, v) == [th EXCEPT !.pc = "done", !.ret = [raised |-> FALSE, value |-> v]]
Raise(th) == [th EXCEPT !.pc = "done", !.ret = [raised |-> TRUE, value |-> <<>>]]

\* one step of a call of Query.matches in frame th, given the text the
\* frame evaluates on
matches_step(th, t, cs) ==
    IF th.pc = "start"
    THEN IF t = <<>> THEN Return(th, FALSE)
         ELSE [th EXCEPT !.pc = "loop", !.i = 1]
    ELSE IF th.i > Len(cs) THEN Return(th, FALSE)
    ELSE IF evaluate(cs[th.i], t) THEN Return(th, TRUE)
    ELSE [th EXCEPT !.i = th.i + 1]

\* one step of a call of Query.get_matching_terms in frame th
get_matching_terms_step(th, t, ts, cs) ==
    IF th.pc = "start" THEN [th EXCEPT !.pc = "loop", !.i = 1, !.acc = <<>>]
    ELSE IF th.i > Len(cs) THEN Return(th, th.acc)
    ELSE IF evaluate(cs[th.i], t)
    THEN IF th.i > Len(ts) THEN Raise(th)
         ELSE [th EXCEPT !.i = th.i + 1, !.acc = Append(th.acc, ts[th.i])]
    ELSE [th EXCEPT !.i = th.i + 1]

\* faulty variant of step: the text is kept in one place shared by all
\* threads (the text of the latest caller), not in the frame
step_shared_text(thr, id, ts, cs) ==
    LET other == CHOOSE o \in DOMAIN thr : o # id
        t == IF thr[other].pc # "idle" THEN thr[other].text ELSE thr[id].text
    IN  IF thr[id].kind = "matches"
        THEN [thr EXCEPT ![id] = matches_step(thr[id], t, cs)]
        ELSE [thr EXCEPT ![id] = get_matching_terms_step(thr[id], t, ts, cs)]

\* thread id runs one step of its evaluation; the frames of the other
\* threads are not touched
step(thr, id, ts, cs) ==
    IF thr[id].kind = "matches"
    THEN [thr EXCEPT ![id] = matches_step(thr[id], thr[id].text, cs)]
    ELSE [thr EXCEPT ![id] =
              get_matching_terms_step(thr[id], thr[id].text, ts, cs)]

InitConc ==
    /\ \E ts \in SeqsUpTo(TermPool, MaxConcTerms) : Constructed(ts)
    /\ threads = [id \in ThreadIds |-> IdleThread]
    /\ EngineIdle /\ TermIdle /\ MetaIdle /\ CollIdle /\ LexIdle /\ IoIdle

\* a thread that is not inside an evaluation calls matches or
\* get_matching_terms on a text
Call ==
    /\ \E id \in ThreadIds, kind \in CallKinds, t \in QueryTexts :
          /\ threads[id].pc \in {"idle", "done"}
          /\ threads' = [threads EXCEPT ![id] = CallThread(kind, t)]
    /\ UNCHANGED <<queryVars, engineVars, termVars, metaVars, collVars, lexVars, ioVars>>

\* the scheduler lets one running thread take a step
Step ==
    /\ \E id \in ThreadIds :
          /\ threads[id].pc \in {"start", "loop"}
          /\ threads' = step(threads, id, terms, compiled)
    /\ UNCHANGED <<queryVars, engineVars, termVars, metaVars, collVars, lexVars, ioVars>>

NextConc == Call \/ Step

SpecConc == InitConc /\ [][NextConc]_vars

\* the result of the evaluation run alone
Alone(kind, t) ==
    IF kind = "matches"
    THEN [raised |-> FALSE, value |-> matches(compiled, t)]
    ELSE get_matching_terms(terms, compiled, t)

\* C14: when matches and get_matching_terms calls on one Query run
\* concurrently on different texts and no add_term / remove_term is in
\* progress, under every interleaving of their steps each finished
\* evaluation has the result it has when run alone.
C14_ConcurrentAsAlone ==
    \A id \in ThreadIds :
        threads[id].pc = "done" =>
            threads[id].ret = Alone(threads[id].kind, threads[id].text)

\* one evaluation finished with a match while another, on a different text,
\* is in the middle of its loop
C14_Witness ==
    /\ threads["t1"].pc = "done" /\ threads["t1"].kind = "matches"
    /\ threads["t1"].ret.value
    /\ threads["t2"].pc = "loop" /\ threads["t2"].i >= 2
    /\ threads["t2"].text # threads["t1"].text

Names == {<<>>, <<"q">>}
Descriptions == {<<>>, <<"d">>}
CategoryLists == {<<>>, <<"cs.AI">>}
UnnamedQuery == <<"Unnamed Query">>

\* data.get(key, default)
DictGet(data, key, default) ==
    IF key \in DOMAIN data THEN data[key] ELSE default

\* Query.to_dict: "categories" is left out when the list is empty
to_dict(n, d, ts, cats) ==
    [k \in {"name", "description", "terms"}
           \cup (IF cats # <<>> THEN {"categories"} ELSE {}) |->
        CASE k = "name" -> n
          [] k = "description" -> d
          [] k = "terms" -> ts
          [] k = "categories" -> cats]

\* Query.from_dict: the constructor compiles the terms again
from_dict(data) ==
    [name |-> DictGet(data, "name", UnnamedQuery),
     description |-> DictGet(data, "description", <<>>),
     terms |-> DictGet(data, "terms", <<>>),
     categories |-> DictGet(data, "categories", <<>>),
     compiled |-> _compile_terms(DictGet(data, "terms", <<>>))]

InitDict ==
    /\ \E ts \in SeqsUpTo(TermPool, MaxTerms) : Constructed(ts)
    /\ name \in Names /\ description \in Descriptions
    /\ categories \in CategoryLists
    /\ EngineIdle /\ TermIdle /\ ConcIdle /\ CollIdle /\ LexIdle /\ IoIdle

\* Query.from_dict(q.to_dict()); the rebuilt Query is the returned value
RoundTrip ==
    /\ op' = "round_trip" /\ arg' = <<>>
    /\ ret' = [raised |-> FALSE,
               value |-> from_dict(to_dict(name, description, terms, categories))]
    /\ UNCHANGED <<terms, compiled, engineVars, termVars, otherVars>>

NextDict == AddTerm \/ RemoveTerm \/ RoundTrip

SpecDict == InitDict /\ [][NextDict]_vars

\* C16: for every Query q, Query.from_dict(q.to_dict()) has the name,
\* description, terms and categories of q, also when q has no categories
\* or no terms, and returns the same matches result as q on every text.
C16_RoundTrip ==
    op = "round_trip" =>
        /\ ret.value.name = name
        /\ ret.value.description = description
        /\ ret.value.terms = terms
        /\ ret.value.categories = categories
        /\ \A t \in QueryTexts :
              matches(ret.value.compiled, t) = matches(compiled, t)

(***************************************************************************)
(* SpecColl: a QueryCollection under add, get, remove, list_ids,            *)
(* merge_collections and classify_items.  The dictionary of the collection *)
(* is a function from the identifiers it holds.                             *)
(***************************************************************************)
MaxItems == 2
QueryIds == {"q1", "q2", "q3"}
IdOrder == <<"q1", "q2", "q3">>

\* a constructed Query, as the collection holds it
QueryOf(ts) == [kind |-> "Query", terms |-> ts, compiled |-> _compile_terms(ts)]
NoQuery == [kind |-> "None"]

QueryPool ==
    { QueryOf(<<TermAI>>), QueryOf(<<TermNotAi>>),
      QueryOf(<<TermBad, TermAI>>), QueryOf(<<>>) }

\* QueryCollection.__init__ without argument
EmptyCollection == <<>>

\* faulty variant of add: an identifier already present keeps its Query
add_keep_existing(qs, query_id, query) ==
    [k \in DOMAIN qs \cup {query_id} |->
        IF k \in DOMAIN qs THEN qs[k] ELSE query]

\* QueryCollection.add: self.queries[query_id] = query
add(qs, query_id, query) ==
    [k \in DOMAIN qs \cup {query_id} |->
        IF k = query_id THEN query ELSE qs[k]]

\* QueryCollection.get: self.queries.get(query_id)
get(qs, query_id) ==
    IF query_id \in DOMAIN qs THEN qs[query_id] ELSE NoQuery

\* QueryCollection.remove: [queries, ret]
remove(qs, query_id) ==
    IF query_id \in DOMAIN qs
    THEN [queries |-> [k \in DOMAIN qs \ {query_id} |-> qs[k]], ret |-> TRUE]
    ELSE [queries |-> qs, ret |-> FALSE]

\* QueryCollection.list_ids, as the set of the keys
list_ids(qs) == DOMAIN qs

\* merge_collections(a, b): every entry of a, then every entry of b, is
\* added to a new collection
RECURSIVE AddAll(_, _, _)
AddAll(merged, collection, i) ==
    IF i > Len(IdOrder) THEN merged
    ELSE IF IdOrder[i] \in DOMAIN collection
    THEN AddAll(add(merged, IdOrder[i], collection[IdOrder[i]]), collection, i + 1)
    ELSE AddAll(merged, collection, i + 1)

merge_collections(a, b) == AddAll(AddAll(EmptyCollection, a, 1), b, 1)

\* Items: dictionaries from field names to values; a value is a string or
\* None
StrValue(x) == [type |-> "str", s |-> x]
NoneValue == [type |-> "NoneType", s |-> <<>>]

\* str(value)
str(v) == IF v.type = "NoneType" THEN <<"N", "o", "n", "e">> ELSE v.s

\* item.get(field, '')
ItemGet(item, field) ==
    IF field \in DOMAIN item THEN item[field] ELSE StrValue(<<>>)

\* ' '.join(parts)
RECURSIVE join(_)
join(parts) ==
    IF parts = <<>> THEN <<>>
    ELSE IF Len(parts) = 1 THEN parts[1]
    ELSE parts[1] \o <<" ">> \o join(Tail(parts))

\* ' '.join(str(item.get(field, '')) for field in text_fields)
combined_text(item, text_fields) ==
    join([i \in 1..Len(text_fields) |-> str(ItemGet(item, text_fields[i]))])

\* faulty variant of filter_items: a matching item is put in front of the
\* list
RECURSIVE filter_items_prepend(_, _, _)
filter_items_prepend(items, query, text_fields) ==
    IF items = <<>> THEN <<>>
    ELSE IF matches(query.compiled, combined_text(Head(items), text_fields))
    THEN filter_items_prepend(Tail(items), query, text_fields) \o <<Head(items)>>
    ELSE filter_items_prepend(Tail(items), query, text_fields)

\* filter_items
RECURSIVE filter_items(_, _, _)
filter_items(items, query, text_fields) ==
    IF items = <<>> THEN <<>>
    ELSE IF matches(query.compiled, combined_text(Head(items), text_fields))
    THEN <<Head(items)>> \o filter_items(Tail(items), query, text_fields)
    ELSE filter_items(Tail(items), query, text_fields)

\* classify_items
classify_items(items, qs, text_fields) ==
    [query_id \in DOMAIN qs |-> filter_items(items, qs[query_id], text_fields)]

ItemPool ==
    { [title |-> StrValue(<<"a", "i">>)],
      [title |-> StrValue(<<"m", "l">>), abstract |-> StrValue(<<"A", "I">>)],
      [title |-> NoneValue, abstract |-> StrValue(<<"s", "a", "i", "d">>)] }

FieldLists ==
    { <<>>, <<"title">>, <<"title", "abstract">>, <<"abstract", "title">> }

MergePool ==
    { EmptyCollection,
      add(EmptyCollection, "q1", QueryOf(<<TermNotAi>>)),
      add(add(EmptyCollection, "q2", QueryOf(<<TermAI>>)), "q3", QueryOf(<<>>)) }

InitColl ==
    /\ queries = EmptyCollection
    /\ cop = "init" /\ carg = <<>> /\ cret = <<>>
    /\ QueryIdle /\ EngineIdle /\ TermIdle /\ MetaIdle /\ ConcIdle /\ LexIdle /\ IoIdle

CollAdd ==
    /\ \E id \in QueryIds, q \in QueryPool :
          /\ queries' = add(queries, id, q)
          /\ cop' = "add" /\ carg' = [query_id |-> id, query |-> q]
          /\ cret' = <<>>
    /\ UNCHANGED <<queryVars, engineVars, termVars, metaVars, threads, lexVars, ioVars>>

CollGet ==
    /\ \E id \in QueryIds :
          /\ cop' = "get" /\ carg' = [query_id |-> id]
          /\ cret' = get(queries, id)
    /\ UNCHANGED <<queries, queryVars, engineVars, termVars, metaVars, threads, lexVars, ioVars>>

CollRemove ==
    /\ \E id \in QueryIds :
          /\ queries' = remove(queries, id).queries
          /\ cop' = "remove" /\ carg' = [query_id |-> id]
          /\ cret' = remove(queries, id).ret
    /\ UNCHANGED <<queryVars, engineVars, termVars, metaVars, threads, lexVars, ioVars>>

CollListIds ==
    /\ cop' = "list_ids" /\ carg' = <<>>
    /\ cret' = list_ids(queries)
    /\ UNCHANGED <<queries, queryVars, engineVars, termVars, metaVars, threads, lexVars, ioVars>>

\* merge_collections(self, other); the collection goes on as the merged one
CollMerge ==
    /\ \E other \in MergePool :
          /\ queries' = merge_collections(queries, other)
          /\ cop' = "merge_collections" /\ carg' = [other |-> other]
          /\ cret' = <<>>
    /\ UNCHANGED <<queryVars, engineVars, termVars, metaVars, threads, lexVars, ioVars>>

NextColl == CollAdd \/ CollGet \/ CollRemove \/ CollListIds \/ CollMerge

SpecColl == InitColl /\ [][NextColl]_vars

\* every identifier but id has the entry it had
OthersKept(id) ==
    \A k \in QueryIds \ {id} : get(queries', k) = get(queries, k)

\* C17: identifiers of a QueryCollection are unique under any sequence of
\* add / remove: after add(id, q), get(id) returns q and there is one entry
\* for id (add on an id already present replaces its Query and keeps the
\* size); remove(id) returns true iff id was present and afterwards
\* get(id) returns nothing; neither changes the entry of another id.
C17_UniqueIds ==
    [][ /\ cop' = "add" =>
              /\ get(queries', carg'.query_id) = carg'.query
              /\ list_ids(queries') = list_ids(queries) \cup {carg'.query_id}
              /\ Cardinality(list_ids(queries')) =
                     IF carg'.query_id \in list_ids(queries)
                     THEN Cardinality(list_ids(queries))
                     ELSE Cardinality(list_ids(queries)) + 1
              /\ OthersKept(carg'.query_id)
        /\ cop' = "remove" =>
              /\ cret' = (carg'.query_id \in list_ids(queries))
              /\ get(queries', carg'.query_id) = NoQuery
              /\ list_ids(queries') = list_ids(queries) \ {carg'.query_id}
              /\ OthersKept(carg'.query_id)
        /\ cop' = "merge_collections" =>
              /\ list_ids(queries') =
                     list_ids(queries) \cup list_ids(carg'.other)
              /\ \A k \in list_ids(queries') :
                     queries'[k] = IF k \in list_ids(carg'.other)
                                   THEN carg'.other[k] ELSE queries[k]
      ]_vars

\* add has put a Query under an identifier of a collection of three that
\* holds a different Query under another identifier
C17_Witness ==
    /\ cop = "add" /\ Cardinality(list_ids(queries)) = 3
    /\ queries[carg.query_id] = carg.query
    /\ \E k \in list_ids(queries) : queries[k] # carg.query

(***************************************************************************)
(* SpecClassify: classify_items on a list of items, a collection and a     *)
(* list of field names.                                                     *)
(***************************************************************************)
Collections == UNION {[D -> QueryPool] : D \in SUBSET QueryIds}

InitClassify ==
    /\ queries \in Collections
    /\ \E items \in SeqsUpTo(ItemPool, MaxItems), fields \in FieldLists :
          carg = [items |-> items, text_fields |-> fields]
    /\ cop = "given" /\ cret = <<>>
    /\ QueryIdle /\ EngineIdle /\ TermIdle /\ MetaIdle /\ ConcIdle /\ LexIdle /\ IoIdle

Classify ==
    /\ cop = "given"
    /\ cop' = "classify_items"
    /\ cret' = classify_items(carg.items, queries, carg.text_fields)
    /\ UNCHANGED <<queries, carg, queryVars, engineVars, termVars, metaVars,
                   threads, lexVars, ioVars>>

NextClassify == Classify

SpecClassify == InitClassify /\ [][NextClassify]_vars

\* the indices of the items the Query matches on the named fields
MatchingIndices(items, q, fields) ==
    {i \in 1..Len(items) :
        matches(q.compiled, combined_text(items[i], fields))}

\* out is the subsequence of items at the indices of I, in input order
IsSubsequenceAt(out, items, I) ==
    /\ Len(out) = Cardinality(I)
    /\ \A j \in 1..Len(out) :
          \E i \in I : /\ out[j] = items[i]
                       /\ Cardinality({k \in I : k < i}) = j - 1

\* C18: classify_items(items, collection, text_fields) returns a mapping
\* with exactly one key per identifier of the collection; the value of an
\* identifier is the subsequence of items, in input order and unmodified,
\* on which that Query's matches is true for the item's named text fields
\* joined in field order.
C18_Classify ==
    cop = "classify_items" =>
        /\ DOMAIN cret = list_ids(queries)
        /\ \A id \in list_ids(queries) :
              IsSubsequenceAt(cret[id], carg.items,
                  MatchingIndices(carg.items, queries[id], carg.text_fields))

\* two different items were classified under a Query that matches both, and
\* another Query of the collection matches none
C18_Witness ==
    /\ cop = "classify_items"
    /\ \E id \in list_ids(queries) :
          Len(cret[id]) = 2 /\ cret[id][1] # cret[id][2]
    /\ \E id \in list_ids(queries) : cret[id] = <<>>

(***************************************************************************)
(* SpecLex: a FilterLexer on a text, get_next_token called again and again. *)
(* ltoks records each call: the position before it, the token returned and  *)
(* the position after it.                                                   *)
(***************************************************************************)
MaxLexLen == 4
MaxExtraCalls == 2

LexChars == {"o", "R", " ", DQ, "(", "#"}

LexExamples ==
    { <<"a","n","d">>, <<"A","N","D">>, <<"n","O","t">>,
      <<"a","n","d","r","o","i","d">>,
      <<"n","o","t","-","a">>, <<"a","-","b","_","c",".","d">>,
      <<"x",")"," ","#","\t","o","r">>,
      <<DQ,"a","n","d",DQ," ","a","n","d","r","o","i","d"," ","a","n","d">> }

LexTexts == SeqsUpTo(LexChars, MaxLexLen) \cup LexExamples

\* FilterLexer.__init__
InitLex ==
    /\ ltext \in LexTexts
    /\ lpos = 1
    /\ ltoks = <<>>
    /\ QueryIdle /\ EngineIdle /\ TermIdle /\ MetaIdle /\ ConcIdle /\ CollIdle /\ IoIdle

\* one call of get_next_token
GetNextToken ==
    /\ Len(ltoks) < Len(ltext) + MaxExtraCalls
    /\ lpos' = get_next_token(ltext, lpos).pos
    /\ ltoks' = Append(ltoks, [from |-> lpos,
                               tok |-> get_next_token(ltext, lpos).tok,
                               to |-> get_next_token(ltext, lpos).pos])
    /\ UNCHANGED <<ltext, queryVars, engineVars, termVars, metaVars, threads,
                   collVars, ioVars>>

NextLex == GetNextToken

SpecLex == InitLex /\ [][NextLex]_vars

\* a character a token can start with
StartsToken(c) == c \in {DQ, "(", ")"} \/ IsWordStart(c)

\* the first position from p on whose character starts a token, or the
\* position after the end when there is none
FirstStart(s, p) ==
    IF \E k \in p..Len(s) : StartsToken(s[k])
    THEN CHOOSE k \in p..Len(s) :
             StartsToken(s[k]) /\ \A j \in p..(k - 1) : ~StartsToken(s[j])
    ELSE Len(s) + 1

\* C19: for every input, repeated calls of get_next_token never raise,
\* yield at most as many non-EOF tokens as the input has characters, then
\* an EOF token, and EOF on every later call; whitespace and characters
\* that start no token are skipped and never emitted.
C19_LexerTerminates ==
    /\ Cardinality({i \in 1..Len(ltoks) : ltoks[i].tok.type # "EOF"})
           <= Len(ltext)
    /\ Len(ltoks) > Len(ltext) => ltoks[Len(ltoks)].tok.type = "EOF"
    /\ \A i \in 1..Len(ltoks) :
          /\ ltoks[i].tok.type = "EOF" <=>
                 FirstStart(ltext, ltoks[i].from) > Len(ltext)
          /\ ltoks[i].tok.type = "EOF" =>
                 /\ ltoks[i].tok.value = <<>>
                 /\ \A j \in i..Len(ltoks) : ltoks[j].tok.type = "EOF"
          /\ ltoks[i].tok.type # "EOF" =>
                 /\ ltoks[i].to > FirstStart(ltext, ltoks[i].from)
                 /\ ltoks[i].to <= Len(ltext) + 1
          /\ ltoks[i].tok.type = "WORD" =>
                 /\ ltoks[i].tok.value # <<>>
                 /\ \A k \in 1..Len(ltoks[i].tok.value) :
                       IsWordStart(ltoks[i].tok.value[k])

\* a text with a space and an unknown character gave tokens, then EOF on
\* two calls in a row
C19_Witness ==
    /\ \E k \in 1..Len(ltext) : ltext[k] = "#"
    /\ \E k \in 1..Len(ltext) : ltext[k] = " "
    /\ Len(ltoks) >= 3
    /\ ltoks[1].tok.type # "EOF"
    /\ ltoks[Len(ltoks) - 1].tok.type = "EOF"
    /\ ltoks[Len(ltoks)].tok.type = "EOF"

\* the end of the maximal run of word characters that starts at p
RunEnd(s, p) ==
    CHOOSE e \in (p + 1)..(Len(s) + 1) :
        /\ \A k \in p..(e - 1) : IsWordStart(s[k])
        /\ e <= Len(s) => ~IsWordStart(s[e])

\* the position of the double quote that closes the phrase opened at p, or
\* the position after the end
QuoteEnd(s, p) ==
    CHOOSE e \in (p + 1)..(Len(s) + 1) :
        /\ \A k \in (p + 1)..(e - 1) : s[k] # DQ
        /\ e <= Len(s) => s[e] = DQ

\* run spells the operator, each letter in either case
Spells(run, upper, lower) ==
    /\ Len(run) = Len(upper)
    /\ \A k \in 1..Len(run) : run[k] \in {upper[k], lower[k]}

\* the token a maximal run outside quotes is to give
RunToken(run) ==
    IF Spells(run, <<"A","N","D">>, <<"a","n","d">>)
    THEN Token("AND", <<"A","N","D">>)
    ELSE IF Spells(run, <<"O","R">>, <<"o","r">>)
    THEN Token("OR", <<"O","R">>)
    ELSE IF Spells(run, <<"N","O","T">>, <<"n","o","t">>)
    THEN Token("NOT", <<"N","O","T">>)
    ELSE Token("WORD", run)

\* C20: outside double quotes a maximal run of alphanumerics and - _ . is
\* emitted as an AND, OR or NOT token exactly when the whole run,
\* upper-cased, is AND, OR or NOT, and as a WORD carrying the run verbatim
\* otherwise; the same letters inside double quotes make a PHRASE token,
\* never an operator.
C20_OperatorOrWord ==
    \A i \in 1..Len(ltoks) :
        LET start == FirstStart(ltext, ltoks[i].from)
        IN  start <= Len(ltext) =>
              /\ IsWordStart(ltext[start]) =>
                    /\ ltoks[i].tok =
                           RunToken(SubSeq(ltext, start, RunEnd(ltext, start) - 1))
                    /\ ltoks[i].to = RunEnd(ltext, start)
              /\ ltext[start] = DQ =>
                    ltoks[i].tok =
                        Token("PHRASE",
                              SubSeq(ltext, start + 1, QuoteEnd(ltext, start) - 1))

\* "and" android and gave PHRASE(and), WORD(android) and an AND token
C20_Witness ==
    /\ Len(ltoks) >= 3
    /\ ltoks[1].tok = Token("PHRASE", <<"a","n","d">>)
    /\ ltoks[2].tok = Token("WORD", <<"a","n","d","r","o","i","d">>)
    /\ ltoks[3].tok = Token("AND", <<"A","N","D">>)

\* C21: a double quote starts one PHRASE token whose content is every
\* character, verbatim, up to but not including the next double quote, and
\* the lexer goes on after that quote; with no closing quote the content
\* runs to the end of the input and the next token is EOF.
C21_PhraseVerbatim ==
    \A i \in 1..Len(ltoks) :
        LET start == FirstStart(ltext, ltoks[i].from)
            close == QuoteEnd(ltext, start)
        IN  (start <= Len(ltext) /\ ltext[start] = DQ) =>
              /\ ltoks[i].tok.type = "PHRASE"
              /\ Len(ltoks[i].tok.value) = close - start - 1
              /\ \A k \in 1..Len(ltoks[i].tok.value) :
                    ltoks[i].tok.value[k] = ltext[start + k]
              /\ ltoks[i].to = IF close <= Len(ltext) THEN close + 1
                               ELSE Len(ltext) + 1
              /\ (close > Len(ltext) /\ i < Len(ltoks)) =>
                    ltoks[i + 1].tok.type = "EOF"

\* an unterminated phrase holding an operator word and a parenthesis was
\* followed by EOF
C21_Witness ==
    /\ ltext = <<DQ, "o", "R", "(">>
    /\ Len(ltoks) = 2
    /\ ltoks[1].tok = Token("PHRASE", <<"o", "R", "(">>)
    /\ ltoks[2].tok.type = "EOF"

(***************************************************************************)
(* SpecExpr: parse_expression on an expression, then evaluate_expression   *)
(* on the same expression and a text; ret is what evaluate_expression      *)
(* returned.                                                               *)
(***************************************************************************)
MaxExprLen == 3

ExprChars == {"a", " ", "#", "(", ")"}

ExprExamples ==
    { <<" ", "\t", "#", " ">>, <<"#", "a", " ", "a">>, <<DQ, DQ>>,
      <<"N", "O", "T">> }

ExprStrings == SeqsUpTo(ExprChars, MaxExprLen) \cup ExprExamples

ExprTexts == { <<>>, <<"a">>, <<"b", " ", "a">> }

InitExpr ==
    /\ expr \in ExprStrings
    /\ text \in ExprTexts
    /\ pc = "start" /\ pres = Raised /\ val = FALSE
    /\ QueryIdle /\ TermIdle /\ OthersIdle

\* evaluate_expression(text, expression)
EvaluateExpression ==
    /\ pc = "parsed"
    /\ ret' = evaluate_expression(text, expr)
    /\ pc' = "evaluated"
    /\ UNCHANGED <<terms, compiled, op, arg, expr, text, pres, val, termVars,
                   otherVars>>

NextExpr == Parse \/ EvaluateExpression

SpecExpr == InitExpr /\ [][NextExpr]_vars

\* no character of e starts a token: e is empty, or whitespace and skipped
\* characters only
NoTokenIn(e) == \A k \in 1..Len(e) : ~StartsToken(e[k])

\* C22: parse_expression returns no node, without raising, exactly when the
\* input yields no token before EOF; for every other input it returns a
\* tree or raises SyntaxError; evaluate_expression returns false on every
\* text when the expression yields no node.
C22_NoNode ==
    /\ pc # "start" =>
          /\ (~pres.err /\ pres.node = NoneNode) <=> NoTokenIn(expr)
          /\ ~NoTokenIn(expr) => (pres.err \/ pres.node.kind # "None")
    /\ (pc = "evaluated" /\ NoTokenIn(expr)) =>
          ret = [raised |-> FALSE, value |-> FALSE]
    /\ pc = "evaluated" => (ret.raised <=> pres.err)

\* an expression of whitespace and skipped characters only gave no node and
\* evaluate_expression returned false on a non-empty text
C22_Witness ==
    /\ pc = "evaluated"
    /\ expr = <<" ", "\t", "#", " ">> /\ text = <<"a">>
    /\ ~pres.err /\ pres.node = NoneNode
    /\ ~ret.raised /\ ~ret.value

(***************************************************************************)
(* SpecAdapter: HackerNewsAdapter and ArxivAdapter; filter, then           *)
(* filter_with_matches, on a list of items and a Query (terms, compiled,   *)
(* categories).  carg holds the adapter and the arguments, cret the two     *)
(* results.                                                                 *)
(***************************************************************************)
ListValue(l) == [type |-> "list", s |-> l]

\* str(value or '')
str_or_empty(v) ==
    IF v.type = "NoneType" \/ v.s = <<>> THEN <<>> ELSE v.s

\* ' '.join(str(item.get(field, '') or '') for field in text_fields)
adapter_text(item, text_fields) ==
    join([i \in 1..Len(text_fields) |->
             str_or_empty(ItemGet(item, text_fields[i]))])

\* str.strip()
RECURSIVE lstrip(_)
lstrip(x) == IF x # <<>> /\ IsSpace(Head(x)) THEN lstrip(Tail(x)) ELSE x
RECURSIVE rstrip(_)
rstrip(x) ==
    IF x # <<>> /\ IsSpace(x[Len(x)]) THEN rstrip(SubSeq(x, 1, Len(x) - 1))
    ELSE x
strip(x) == rstrip(lstrip(x))

\* str.split(','): cur is the part read since the last comma
RECURSIVE SplitFrom(_, _, _)
SplitFrom(x, i, cur) ==
    IF i > Len(x) THEN <<cur>>
    ELSE IF x[i] = "," THEN <<cur>> \o SplitFrom(x, i + 1, <<>>)
    ELSE SplitFrom(x, i + 1, Append(cur, x[i]))
split(x) == SplitFrom(x, 1, <<>>)

\* item_cats: item.get('categories', []), a string being split at commas
\* and each part stripped
item_cats(item) ==
    IF "categories" \notin DOMAIN item THEN <<>>
    ELSE IF item["categories"].type = "str"
    THEN [i \in 1..Len(split(item["categories"].s)) |->
             strip(split(item["categories"].s)[i])]
    ELSE item["categories"].s

\* not (query.categories and not any(cat in item_cats ...)): the item goes on
\* to be appended
passes_categories(item, cats) ==
    IF cats # <<>>
    THEN \E i \in 1..Len(cats) : cats[i] \in Range(item_cats(item))
    ELSE TRUE

\* text_fields, or the adapter's default_text_fields when None
fields_of(adapter, text_fields) ==
    IF text_fields.type = "NoneType"
    THEN IF adapter = "hackernews" THEN <<"title", "story_text">>
         ELSE <<"title", "summary">>
    ELSE text_fields.s

\* HackerNewsAdapter.filter
RECURSIVE hn_filter(_, _, _)
hn_filter(items, cs, fields) ==
    IF items = <<>> THEN <<>>
    ELSE IF matches(cs, adapter_text(Head(items), fields))
    THEN <<Head(items)>> \o hn_filter(Tail(items), cs, fields)
    ELSE hn_filter(Tail(items), cs, fields)

\* faulty variant of arxiv_filter: the category test is made even when the
\* Query has no categories
RECURSIVE arxiv_filter_always_cats(_, _, _, _)
arxiv_filter_always_cats(items, cs, cats, fields) ==
    IF items = <<>> THEN <<>>
    ELSE IF /\ matches(cs, adapter_text(Head(items), fields))
            /\ \E i \in 1..Len(cats) : cats[i] \in Range(item_cats(Head(items)))
    THEN <<Head(items)>> \o arxiv_filter_always_cats(Tail(items), cs, cats, fields)
    ELSE arxiv_filter_always_cats(Tail(items), cs, cats, fields)

\* ArxivAdapter.filter
RECURSIVE arxiv_filter(_, _, _, _)
arxiv_filter(items, cs, cats, fields) ==
    IF items = <<>> THEN <<>>
    ELSE IF /\ matches(cs, adapter_text(Head(items), fields))
            /\ passes_categories(Head(items), cats)
    THEN <<Head(items)>> \o arxiv_filter(Tail(items), cs, cats, fields)
    ELSE arxiv_filter(Tail(items), cs, cats, fields)

\* item.copy() with item_copy['_matched_terms'] = matched_terms
annotated(item, matched_terms) ==
    [k \in DOMAIN item \cup {"_matched_terms"} |->
        IF k = "_matched_terms" THEN ListValue(matched_terms) ELSE item[k]]

\* the loop of filter_with_matches, m being what get_matching_terms
\* returned for the head item: [raised, value]
RECURSIVE with_matches(_, _, _, _, _, _)
WithMatchesStep(items, ts, cs, cats, fields, usecats, m) ==
    IF m.raised THEN [raised |-> TRUE, value |-> <<>>]
    ELSE LET rest == with_matches(Tail(items), ts, cs, cats, fields, usecats)
         IN  IF m.value # <<>>
                /\ (usecats => passes_categories(Head(items), cats))
             THEN [raised |-> rest.raised,
                   value |-> IF rest.raised THEN <<>>
                             ELSE <<annotated(Head(items), m.value)>> \o rest.value]
             ELSE rest

with_matches(items, ts, cs, cats, fields, usecats) ==
    IF items = <<>> THEN [raised |-> FALSE, value |-> <<>>]
    ELSE WithMatchesStep(items, ts, cs, cats, fields, usecats,
             get_matching_terms(ts, cs, adapter_text(Head(items), fields)))

\* HackerNewsAdapter.filter_with_matches
hn_filter_with_matches(items, ts, cs, fields) ==
    with_matches(items, ts, cs, <<>>, fields, FALSE)

\* ArxivAdapter.filter_with_matches
arxiv_filter_with_matches(items, ts, cs, cats, fields) ==
    with_matches(items, ts, cs, cats, fields, TRUE)

CatX == <<"x">>
CatY == <<"y">>
AdapterCategoryLists == {<<>>, <<CatX>>, <<CatY, CatX>>}

AdapterItems ==
    { [title |-> StrValue(<<"a", "i">>), categories |-> ListValue(<<CatX>>)],
      [title |-> StrValue(<<"m", "l">>), summary |-> StrValue(<<"A", "I">>),
       story_text |-> StrValue(<<"A", "I">>),
       categories |-> StrValue(<<"y", ",", " ", "x", " ">>)],
      [title |-> NoneValue, categories |-> ListValue(<<CatY>>)],
      [title |-> StrValue(<<"s", "a", "i", "d">>)],
      [title |-> StrValue(<<>>), categories |-> StrValue(<<"x", "y">>)] }

AdapterFields == {NoneValue, ListValue(<<"title">>)}
AdapterTermLists ==
    { <<>>, <<TermAI>>, <<TermNotAi>>, <<TermBad, TermAI>>,
      <<TermAI, TermNotAi>> }
Adapters == {"hackernews", "arxiv"}

InitAdapter ==
    /\ \E ts \in AdapterTermLists : Constructed(ts)
    /\ categories \in AdapterCategoryLists
    /\ name = <<>> /\ description = <<>>
    /\ \E a \in Adapters, items \in SeqsUpTo(AdapterItems, MaxItems),
          f \in AdapterFields :
          carg = [adapter |-> a, items |-> items, text_fields |-> f]
    /\ cop = "given" /\ cret = <<>> /\ queries = <<>>
    /\ EngineIdle /\ TermIdle /\ ConcIdle /\ LexIdle /\ IoIdle

\* adapter.filter(items, query, text_fields)
AdapterFilter ==
    /\ cop = "given"
    /\ cop' = "filtered"
    /\ cret' = [filter |->
                   IF carg.adapter = "hackernews"
                   THEN hn_filter(carg.items, compiled,
                            fields_of(carg.adapter, carg.text_fields))
                   ELSE arxiv_filter(carg.items, compiled, categories,
                            fields_of(carg.adapter, carg.text_fields))]
    /\ UNCHANGED <<queries, carg, queryVars, engineVars, termVars, metaVars,
                   threads, lexVars, ioVars>>

\* adapter.filter_with_matches(items, query, text_fields)
AdapterFilterWithMatches ==
    /\ cop = "filtered"
    /\ cop' = "annotated"
    /\ cret' = [filter |-> cret.filter,
                with_matches |->
                   IF carg.adapter = "hackernews"
                   THEN hn_filter_with_matches(carg.items, terms, compiled,
                            fields_of(carg.adapter, carg.text_fields))
                   ELSE arxiv_filter_with_matches(carg.items, terms, compiled,
                            categories,
                            fields_of(carg.adapter, carg.text_fields))]
    /\ UNCHANGED <<queries, carg, queryVars, engineVars, termVars, metaVars,
                   threads, lexVars, ioVars>>

NextAdapter == AdapterFilter \/ AdapterFilterWithMatches

SpecAdapter == InitAdapter /\ [][NextAdapter]_vars

\* x without its leading and trailing spaces
Trimmed(x) ==
    IF \A k \in 1..Len(x) : x[k] = " " THEN <<>>
    ELSE SubSeq(x,
             CHOOSE a \in 1..Len(x) :
                 x[a] # " " /\ \A k \in 1..(a - 1) : x[k] = " ",
             CHOOSE b \in 1..Len(x) :
                 x[b] # " " /\ \A k \in (b + 1)..Len(x) : x[k] = " ")

\* the category set of an item: the elements of its list, or the trimmed
\* parts between the commas of its string
CategorySet(item) ==
    IF "categories" \notin DOMAIN item THEN {}
    ELSE IF item["categories"].type = "list" THEN Range(item["categories"].s)
    ELSE LET x == item["categories"].s
         IN  { Trimmed(SubSeq(x, i, j)) :
                 <<i, j>> \in
                   { p \in (1..(Len(x) + 1)) \X (0..Len(x)) :
                       /\ p[1] <= p[2] + 1
                       /\ (p[1] = 1 \/ x[p[1] - 1] = ",")
                       /\ (p[2] = Len(x) \/ x[p[2] + 1] = ",")
                       /\ \A k \in p[1]..p[2] : x[k] # "," } }

\* the indices of the items ArxivAdapter.filter is to return
ArxivSelected ==
    {i \in 1..Len(carg.items) :
        /\ matches(compiled,
               adapter_text(carg.items[i],
                            fields_of(carg.adapter, carg.text_fields)))
        /\ (categories # <<>> =>
               CategorySet(carg.items[i]) \cap Range(categories) # {})}

\* C23: ArxivAdapter.filter returns, in input order, exactly the items on
\* which the Query's matches is true for the joined text fields and, when
\* the Query's categories are not empty, whose category set shares a
\* category with them; with no categories the text match alone decides, and
\* an item whose text does not match is never returned.
C23_ArxivFilter ==
    (cop \in {"filtered", "annotated"} /\ carg.adapter = "arxiv") =>
        /\ IsSubsequenceAt(cret.filter, carg.items, ArxivSelected)
        /\ \A j \in 1..Len(cret.filter) :
              matches(compiled,
                  adapter_text(cret.filter[j],
                               fields_of(carg.adapter, carg.text_fields)))

\* with categories, ArxivAdapter.filter kept an item whose categories come
\* as a comma-separated string and dropped one whose text matches too
C23_Witness ==
    /\ cop = "filtered" /\ carg.adapter = "arxiv"
    /\ categories # <<>>
    /\ Len(carg.items) = 2 /\ Len(cret.filter) = 1
    /\ cret.filter[1]["categories"].type = "str"
    /\ \A i \in 1..2 :
          matches(compiled,
              adapter_text(carg.items[i],
                           fields_of(carg.adapter, carg.text_fields)))

\* C29: for every list of items and every Query, an adapter's filter and
\* filter_with_matches select the same items in the same order, the second
\* returning copies that differ only by the added _matched_terms; for
\* HackerNewsAdapter and for ArxivAdapter.
C29_SameSelection ==
    cop = "annotated" =>
        /\ ~cret.with_matches.raised
        /\ Len(cret.with_matches.value) = Len(cret.filter)
        /\ \A j \in 1..Len(cret.filter) :
              /\ j <= Len(cret.with_matches.value)
              /\ DOMAIN cret.with_matches.value[j] =
                     DOMAIN cret.filter[j] \cup {"_matched_terms"}
              /\ \A k \in DOMAIN cret.filter[j] :
                     cret.with_matches.value[j][k] = cret.filter[j][k]

(***************************************************************************)
(* deduplicate_outputs.py.  The output directory fs maps each file name to *)
(* the articles of the file; dd is the last operation with its result.     *)
(***************************************************************************)
\* name.split("_"): cur is the part read since the last underscore
RECURSIVE SplitUnderscore(_, _, _)
SplitUnderscore(x, i, cur) ==
    IF i > Len(x) THEN <<cur>>
    ELSE IF x[i] = "_" THEN <<cur>> \o SplitUnderscore(x, i + 1, <<>>)
    ELSE SplitUnderscore(x, i + 1, Append(cur, x[i]))

\* "_".join(parts)
RECURSIVE JoinUnderscore(_)
JoinUnderscore(parts) ==
    IF parts = <<>> THEN <<>>
    ELSE IF Len(parts) = 1 THEN parts[1]
    ELSE parts[1] \o <<"_">> \o JoinUnderscore(Tail(parts))

\* the parts before the first one that holds a "-"
RECURSIVE query_id_parts(_)
query_id_parts(parts) ==
    IF parts = <<>> THEN <<>>
    ELSE IF "-" \in Range(Head(parts)) THEN <<>>
    ELSE <<Head(parts)>> \o query_id_parts(Tail(parts))

\* Path.suffix is what starts at the last dot; Path.stem is what is before
LastDot(x) ==
    IF "." \in Range(x)
    THEN CHOOSE i \in 1..Len(x) :
             x[i] = "." /\ \A j \in (i + 1)..Len(x) : x[j] # "."
    ELSE 0
stem(x) == IF LastDot(x) > 1 THEN SubSeq(x, 1, LastDot(x) - 1) ELSE x
suffix(x) == IF LastDot(x) > 1 THEN SubSeq(x, LastDot(x), Len(x)) ELSE <<>>

DotJson == <<".", "j", "s", "o", "n">>
Consolidated == <<"_", "c", "o", "n", "s", "o", "l", "i", "d", "a", "t", "e", "d">>

\* directory.glob("*.json")
glob_json(dir) ==
    {f \in DOMAIN dir :
        Len(f) >= Len(DotJson)
        /\ SubSeq(f, Len(f) - Len(DotJson) + 1, Len(f)) = DotJson}

\* "_consolidated" in filepath.name
is_consolidated(f) == StrIn(Consolidated, f)

\* the key group_files_by_query files f under
query_id_of(f) ==
    IF query_id_parts(SplitUnderscore(stem(f), 1, <<>>)) # <<>>
    THEN JoinUnderscore(query_id_parts(SplitUnderscore(stem(f), 1, <<>>)))
    ELSE stem(f)

\* group_files_by_query: query_id -> the files of the group
group_files_by_query(dir) ==
    LET files == {f \in glob_json(dir) : ~is_consolidated(f)}
    IN  [q \in {query_id_of(f) : f \in files} |->
            {f \in files : query_id_of(f) = q}]

\* the name run_queries gives the result file of query_id at date_str
FileName(query_id, date_str) == query_id \o <<"_">> \o date_str \o DotJson
ConsolidatedName(query_id) == query_id \o Consolidated \o DotJson

IdAi == <<"a", "i">>
IdAgenticAi == <<"a", "g", "e", "n", "t", "i", "c", "_", "a", "i">>
IdHyphen == <<"a", "i", "-", "x">>
GroupQueryIds == {IdAi, IdAgenticAi, IdHyphen}

DateMinute == <<"2", "0", "2", "6", "-", "0", "1", "-", "2", "7", "_", "1", "4", ":", "3", "0">>
DateHour == <<"2", "0", "2", "6", "-", "0", "1", "-", "2", "8", "-", "0", "9">>
DateStrings == {DateMinute, DateHour}

GroupFileNames ==
    {FileName(q, d) : q \in GroupQueryIds, d \in DateStrings}
    \cup {ConsolidatedName(IdAi), <<"n", "o", "t", "e", "s", ".", "t", "x", "t">>}

(***************************************************************************)
(* SpecGroup: group_files_by_query on a directory.                         *)
(***************************************************************************)
InitGroup ==
    /\ \E names \in SUBSET GroupFileNames : fs = [f \in names |-> <<>>]
    /\ dd = [op |-> "given", ret |-> <<>>]
    /\ arx = <<>>
    /\ QueryIdle /\ EngineIdle /\ TermIdle /\ MetaIdle /\ ConcIdle /\ CollIdle
    /\ LexIdle

GroupFiles ==
    /\ dd.op = "given"
    /\ dd' = [op |-> "group_files_by_query", ret |-> group_files_by_query(fs)]
    /\ UNCHANGED <<fs, arx, queryVars, engineVars, termVars, metaVars, threads,
                   collVars, lexVars>>

NextGroup == GroupFiles

SpecGroup == InitGroup /\ [][NextGroup]_vars

\* C24: group_files_by_query puts two non-consolidated files named
\* {query_id}_{date}.json into the same group if and only if they have the
\* same query_id, and labels that group with the query_id, for query_ids of
\* letters, digits, underscores and hyphens and dates written
\* YYYY-MM-DD_HH:MM or YYYY-MM-DD-HH.
C24_GroupedByQueryId ==
    dd.op = "group_files_by_query" =>
        \A q \in GroupQueryIds, d \in DateStrings :
            FileName(q, d) \in DOMAIN fs =>
                /\ q \in DOMAIN dd.ret
                /\ FileName(q, d) \in dd.ret[q]
                /\ \A k \in DOMAIN dd.ret :
                      FileName(q, d) \in dd.ret[k] => k = q

(***************************************************************************)
(* deduplicate_hn_articles.  A file is [readable, articles]; an article is *)
(* a dictionary; a value is a string, an integer or None.                  *)
(***************************************************************************)
MaxArticles == 2

IntValue(n) == [type |-> "int", n |-> n]

\* characters in the order of their code points
CharOrder ==
    <<"-", ".", "0", "1", "2", "3", "4", "5", "6", "7", "8", "9", ":">>
    \o UpperLetters \o <<"_">> \o LowerLetters
Rank(c) == CHOOSE i \in 1..Len(CharOrder) : CharOrder[i] = c

\* x < y on strings
RECURSIVE StrLess(_, _)
StrLess(x, y) ==
    IF y = <<>> THEN FALSE
    ELSE IF x = <<>> THEN TRUE
    ELSE IF Head(x) = Head(y) THEN StrLess(Tail(x), Tail(y))
    ELSE Rank(Head(x)) < Rank(Head(y))

\* sorted(files)
RECURSIVE sorted(_)
sorted(files) ==
    IF files = {} THEN <<>>
    ELSE LET least == CHOOSE f \in files :
                          \A g \in files \ {f} : StrLess(f, g)
         IN  <<least>> \o sorted(files \ {least})

\* str(article.get("id", ""))
article_id(article) ==
    IF "id" \notin DOMAIN article THEN <<>>
    ELSE IF article["id"].type = "int"
    THEN <<CharOrder[article["id"].n + 3]>>
    ELSE str(article["id"])

\* article.get("points", 0) or 0
points_of(article) ==
    IF "points" \notin DOMAIN article THEN 0
    ELSE IF article["points"].type = "int" THEN article["points"].n
    ELSE 0

\* the position of key in best_articles (a dict, in insertion order), 0 when
\* it is not a key
BestIndex(best, key) ==
    IF \E i \in 1..Len(best) : best[i].key = key
    THEN CHOOSE i \in 1..Len(best) : best[i].key = key
    ELSE 0

BestEntry(article) ==
    [key |-> article_id(article), article |-> article,
     points |-> points_of(article)]

\* faulty variant of best_update: a later occurrence always replaces the
\* one kept
best_update_keep_last(best, article) ==
    IF article_id(article) = <<>> THEN best
    ELSE IF BestIndex(best, article_id(article)) = 0
    THEN Append(best, BestEntry(article))
    ELSE [best EXCEPT ![BestIndex(best, article_id(article))] =
              BestEntry(article)]

\* the body of the loop over the articles of a file
best_update(best, article) ==
    IF article_id(article) = <<>> THEN best
    ELSE IF BestIndex(best, article_id(article)) = 0
    THEN Append(best, BestEntry(article))
    ELSE IF points_of(article) > best[BestIndex(best, article_id(article))].points
    THEN [best EXCEPT ![BestIndex(best, article_id(article))] =
              BestEntry(article)]
    ELSE best

RECURSIVE best_of_articles(_, _)
best_of_articles(best, articles) ==
    IF articles = <<>> THEN best
    ELSE best_of_articles(best_update(best, Head(articles)), Tail(articles))

\* the loop over the files; a file that cannot be read is skipped
RECURSIVE best_of_files(_, _, _)
best_of_files(best, files, dir) ==
    IF files = <<>> THEN best
    ELSE IF ~dir[Head(files)].readable
    THEN best_of_files(best, Tail(files), dir)
    ELSE best_of_files(best_of_articles(best, dir[Head(files)].articles),
                       Tail(files), dir)

\* list.sort(key=points, reverse=True): stable, by insertion
RECURSIVE InsertByPoints(_, _)
InsertByPoints(out, article) ==
    IF out = <<>> THEN <<article>>
    ELSE IF points_of(Head(out)) >= points_of(article)
    THEN <<Head(out)>> \o InsertByPoints(Tail(out), article)
    ELSE <<article>> \o out

RECURSIVE sort_by_points(_, _)
sort_by_points(out, articles) ==
    IF articles = <<>> THEN out
    ELSE sort_by_points(InsertByPoints(out, Head(articles)), Tail(articles))

\* deduplicate_hn_articles(files), the files being read from dir: the list
\* of articles it returns
deduplicate_hn_articles(files, dir) ==
    LET best == best_of_files(<<>>, sorted(files), dir)
    IN  sort_by_points(<<>>, [i \in 1..Len(best) |-> best[i].article])

ReadableFile(articles) == [readable |-> TRUE, articles |-> articles]
UnreadableFile == [readable |-> FALSE, articles |-> <<>>]

ArticlePool ==
    { [id |-> IntValue(1), points |-> IntValue(1), title |-> StrValue(<<"a">>)],
      [id |-> StrValue(<<"1">>), points |-> IntValue(2), title |-> StrValue(<<"b">>)],
      [id |-> IntValue(1), points |-> NoneValue, title |-> StrValue(<<"c">>)],
      [id |-> IntValue(2), points |-> IntValue(1), title |-> StrValue(<<"d">>)],
      [id |-> IntValue(2), title |-> StrValue(<<"e">>)],
      [points |-> IntValue(2), title |-> StrValue(<<"f">>)] }

FileContents ==
    {ReadableFile(as) : as \in SeqsUpTo(ArticlePool, MaxArticles)}
    \cup {UnreadableFile}

DedupFileNames == {FileName(IdAi, DateMinute), FileName(IdAi, DateHour)}

(***************************************************************************)
(* SpecDedup: deduplicate_hn_articles on the files of one query.           *)
(***************************************************************************)
InitDedup ==
    /\ fs \in [DedupFileNames -> FileContents]
    /\ dd = [op |-> "given", ret |-> <<>>]
    /\ arx = <<>>
    /\ QueryIdle /\ EngineIdle /\ TermIdle /\ MetaIdle /\ ConcIdle /\ CollIdle
    /\ LexIdle

DeduplicateHn ==
    /\ dd.op = "given"
    /\ dd' = [op |-> "deduplicate_hn_articles",
              ret |-> deduplicate_hn_articles(DOMAIN fs, fs)]
    /\ UNCHANGED <<fs, arx, queryVars, engineVars, termVars, metaVars, threads,
                   collVars, lexVars>>

NextDedup == DeduplicateHn

SpecDedup == InitDedup /\ [][NextDedup]_vars

\* every article of every readable file of the directory
Occurrences(dir) ==
    UNION {Range(dir[f].articles) : f \in {g \in DOMAIN dir : dir[g].readable}}

\* C25: deduplicate_hn_articles returns at most one article per id; the
\* article kept for an id has points greater than or equal to the points of
\* every other occurrence of that id in the input files; the returned list
\* is sorted by points in descending order.
C25_Deduplicated ==
    dd.op = "deduplicate_hn_articles" =>
        /\ \A i, j \in 1..Len(dd.ret) :
              article_id(dd.ret[i]) = article_id(dd.ret[j]) => i = j
        /\ \A i \in 1..Len(dd.ret) :
              /\ dd.ret[i] \in Occurrences(fs)
              /\ \A a \in Occurrences(fs) :
                    article_id(a) = article_id(dd.ret[i]) =>
                        points_of(dd.ret[i]) >= points_of(a)
        /\ \A i, j \in 1..Len(dd.ret) :
              i < j => points_of(dd.ret[i]) >= points_of(dd.ret[j])

\* an id that occurs in both files with different points was kept once,
\* after an article of another id with more points
C25_Witness ==
    /\ dd.op = "deduplicate_hn_articles"
    /\ Len(dd.ret) = 2
    /\ points_of(dd.ret[1]) > points_of(dd.ret[2])
    /\ \E f, g \in DOMAIN fs :
          /\ f # g
          /\ \E a \in Range(fs[f].articles), b \in Range(fs[g].articles) :
                /\ article_id(a) = article_id(dd.ret[2])
                /\ article_id(b) = article_id(dd.ret[2])
                /\ points_of(a) # points_of(b)

(***************************************************************************)
(* SpecArxiv: ArxivAPI.search_recent.  arx holds the locals of the call;   *)
(* each step is one turn of the while loop with the page the server        *)
(* returned.  A result is its published time, counted from the cutoff:     *)
(* in range when it is 0 or more.                                          *)
(***************************************************************************)
PageSize == 2
MaxRequests == 3

PublishedTimes == {-1, 0, 1}
Pages == SeqsUpTo(PublishedTimes, PageSize)
MaxResultsValues == {NoneValue} \cup {IntValue(n) : n \in 0..MaxRequests}

\* max_results is None or len(papers) < max_results
loop_condition(a) ==
    IF a.max_results.type = "NoneType" THEN TRUE
    ELSE Len(a.papers) < a.max_results.n

\* max_results and len(papers) >= max_results
reached_max(papers, max_results) ==
    IF max_results.type = "NoneType" \/ max_results.n = 0 THEN FALSE
    ELSE Len(papers) >= max_results.n

\* the for loop over page_results: [papers, outside], outside being
\* papers_outside_range
RECURSIVE scan_page(_, _, _, _)
scan_page(papers, outside, page, max_results) ==
    IF page = <<>> THEN [papers |-> papers, outside |-> outside]
    ELSE IF Head(page) >= 0
    THEN IF reached_max(Append(papers, Head(page)), max_results)
         THEN [papers |-> Append(papers, Head(page)), outside |-> outside]
         ELSE scan_page(Append(papers, Head(page)), outside, Tail(page),
                        max_results)
    ELSE scan_page(papers, outside + 1, Tail(page), max_results)

\* the end of a turn of the while loop, r being what the for loop left
AfterScan(a, page, r) ==
    IF Len(page) < PageSize \/ r.outside = Len(page)
    THEN [a EXCEPT !.pc = "done", !.papers = r.papers, !.page = page,
                   !.request_count = a.request_count + 1]
    ELSE [a EXCEPT !.papers = r.papers, !.page = page,
                   !.request_count = a.request_count + 1,
                   !.start = a.start + Len(page)]

\* faulty variant of turn: every result of the page is appended, in range
\* or not
turn_no_cutoff(a, page) ==
    IF page = <<>>
    THEN [a EXCEPT !.pc = "done", !.page = page,
                   !.request_count = a.request_count + 1]
    ELSE AfterScan(a, page, [papers |-> a.papers \o page, outside |-> 0])

\* one turn of the while loop on the page the request returned
turn(a, page) ==
    IF page = <<>>
    THEN [a EXCEPT !.pc = "done", !.page = page,
                   !.request_count = a.request_count + 1]
    ELSE AfterScan(a, page, scan_page(a.papers, 0, page, a.max_results))

InitArxiv ==
    /\ \E m \in MaxResultsValues :
          arx = [pc |-> "loop", papers |-> <<>>, start |-> 0,
                 request_count |-> 0, max_results |-> m, page |-> <<>>]
    /\ fs = <<>> /\ dd = <<>>
    /\ QueryIdle /\ EngineIdle /\ TermIdle /\ MetaIdle /\ ConcIdle /\ CollIdle
    /\ LexIdle

\* a request is made and the page it returns is gone through
RequestPage ==
    /\ arx.pc = "loop" /\ loop_condition(arx)
    /\ arx.request_count < MaxRequests
    /\ \E page \in Pages : arx' = turn(arx, page)
    /\ UNCHANGED <<fs, dd, queryVars, engineVars, termVars, metaVars, threads,
                   collVars, lexVars>>

\* the while condition is false: return papers
ReturnPapers ==
    /\ arx.pc = "loop" /\ ~loop_condition(arx)
    /\ arx' = [arx EXCEPT !.pc = "done"]
    /\ UNCHANGED <<fs, dd, queryVars, engineVars, termVars, metaVars, threads,
                   collVars, lexVars>>

NextArxiv == RequestPage \/ ReturnPapers

SpecArxiv == InitArxiv /\ [][NextArxiv]_vars

\* C26: search_recent returns only papers published at or after the cutoff
\* and, when max_results is given, never more than max_results papers,
\* whatever pages the requests return; it requests no page after a page
\* that is empty, shorter than page_size, or entirely older than the
\* cutoff.
C26_SearchRecent ==
    /\ \A i \in 1..Len(arx.papers) : arx.papers[i] >= 0
    /\ arx.max_results.type = "int" => Len(arx.papers) <= arx.max_results.n
    /\ (arx.pc = "loop" /\ arx.request_count > 0) =>
          /\ Len(arx.page) = PageSize
          /\ \E i \in 1..Len(arx.page) : arx.page[i] >= 0
    /\ arx.start <= arx.request_count * PageSize

\* the call returned after a second page that was entirely older than the
\* cutoff, with the paper of the first page that was in range
C26_Witness ==
    /\ arx.pc = "done" /\ arx.request_count = 2
    /\ Len(arx.page) = PageSize
    /\ \A i \in 1..Len(arx.page) : arx.page[i] < 0
    /\ Len(arx.papers) = 1

\* C27: remove_term(t) for a term t that is in terms but did not parse to
\* a tree (a syntax error or an empty expression) removes t from terms and
\* leaves the compiled list unchanged, so every other term matches as
\* before the call.
C27_RemoveFailedTerm ==
    [][ (op' = "remove_term" /\ ret'.value /\ ~ParsesToTree(arg')) =>
            /\ terms' = Pop(terms, IndexOf(terms, arg'))
            /\ compiled' = compiled
            /\ \A t \in QueryTexts :
                  matches(compiled', t) = matches(compiled, t)
      ]_vars

\* C28: after construction from any list of term strings and any sequence
\* of add_term / remove_term calls the compiled list is never longer than
\* terms, so get_matching_terms never reads past the end of terms and
\* raises for no text.
C28_CompiledNotLonger ==
    /\ Len(compiled) <= Len(terms)
    /\ op = "get_matching_terms" => ~ret.raised
    /\ \A t \in QueryTexts : ~get_matching_terms(terms, compiled, t).raised

\* get_matching_terms returned a term of a Query whose last compiled tree
\* sits at the last index of terms, after a remove_term that left the
\* compiled list as long as terms with a failed term in it
C28_Witness ==
    /\ op = "get_matching_terms" /\ ret.value # <<>>
    /\ Len(compiled) = Len(terms)
    /\ \E i \in 1..Len(terms) : ~ParsesToTree(terms[i])

(***************************************************************************)
(* SpecProcess: runs of process_hackernews on an output directory that     *)
(* run_queries adds result files to.  A run is the list of the writes and  *)
(* unlinks it makes, in order, applied to the directory.                   *)
(***************************************************************************)
WriteOp(f, content) == [op |-> "write", name |-> f, content |-> content]
UnlinkOp(f) == [op |-> "unlink", name |-> f, content |-> UnreadableFile]

\* the directory after open(name, 'w') + json.dump, or filepath.unlink()
apply_op(dir, o) ==
    IF o.op = "write"
    THEN [f \in DOMAIN dir \cup {o.name} |->
              IF f = o.name THEN o.content ELSE dir[f]]
    ELSE [f \in DOMAIN dir \ {o.name} |-> dir[f]]

RECURSIVE apply_ops(_, _)
apply_ops(dir, ops) ==
    IF ops = <<>> THEN dir ELSE apply_ops(apply_op(dir, Head(ops)), Tail(ops))

\* for filepath in files: filepath.unlink()
unlink_all(files) == [i \in 1..Len(files) |-> UnlinkOp(files[i])]

\* the consolidated file of the articles and the removal of the sources
write_and_unlink(query_id, articles, files, keep_sources) ==
    IF articles = <<>> THEN <<>>
    ELSE <<WriteOp(ConsolidatedName(query_id), ReadableFile(articles))>>
         \o (IF keep_sources THEN <<>> ELSE unlink_all(sorted(files)))

\* the body of the loop over the groups: what it does to the directory
process_group(dir, query_id, files, dry_run, keep_sources) ==
    IF Cardinality(files) < 2 THEN <<>>
    ELSE IF dry_run THEN <<>>
    ELSE write_and_unlink(query_id, deduplicate_hn_articles(files, dir),
                          files, keep_sources)

\* for query_id, files in sorted(groups.items())
RECURSIVE process_groups(_, _, _, _, _)
process_groups(dir, groups, ids, dry_run, keep_sources) ==
    IF ids = <<>> THEN <<>>
    ELSE process_group(dir, Head(ids), groups[Head(ids)], dry_run,
                       keep_sources)
         \o process_groups(
                apply_ops(dir, process_group(dir, Head(ids), groups[Head(ids)],
                                             dry_run, keep_sources)),
                groups, Tail(ids), dry_run, keep_sources)

\* process_hackernews(output_dir, dry_run, keep_sources): its writes and
\* unlinks
process_hackernews(dir, dry_run, keep_sources) ==
    process_groups(dir, group_files_by_query(dir),
                   sorted(DOMAIN group_files_by_query(dir)),
                   dry_run, keep_sources)

ProcessQueryIds == {IdAi, IdAgenticAi}
ProcessFileNames ==
    {FileName(IdAi, d) : d \in DateStrings} \cup {FileName(IdAgenticAi, DateMinute)}
ProcessArticles ==
    { [id |-> IntValue(1), points |-> IntValue(1), title |-> StrValue(<<"a">>)],
      [id |-> IntValue(2), points |-> IntValue(1), title |-> StrValue(<<"d">>)] }
ProcessContents ==
    {ReadableFile(<<a>>) : a \in ProcessArticles} \cup {UnreadableFile}

InitProcess ==
    /\ fs = <<>>
    /\ dd = [op |-> "given", dry_run |-> FALSE, keep_sources |-> FALSE,
             ops |-> <<>>]
    /\ arx = <<>>
    /\ QueryIdle /\ EngineIdle /\ TermIdle /\ MetaIdle /\ ConcIdle /\ CollIdle
    /\ LexIdle

\* run_queries saves the results of a query under a name of its own
AddResultFile ==
    /\ \E f \in ProcessFileNames \ DOMAIN fs, c \in ProcessContents :
          fs' = apply_op(fs, WriteOp(f, c))
    /\ dd' = [op |-> "save_results", dry_run |-> FALSE,
              keep_sources |-> FALSE, ops |-> <<>>]
    /\ UNCHANGED <<arx, queryVars, engineVars, termVars, metaVars, threads,
                   collVars, lexVars>>

ProcessHackernews ==
    /\ \E dry_run \in BOOLEAN, keep_sources \in BOOLEAN :
          /\ dd' = [op |-> "process_hackernews", dry_run |-> dry_run,
                    keep_sources |-> keep_sources,
                    ops |-> process_hackernews(fs, dry_run, keep_sources)]
          /\ fs' = apply_ops(fs, process_hackernews(fs, dry_run, keep_sources))
    /\ UNCHANGED <<arx, queryVars, engineVars, termVars, metaVars, threads,
                   collVars, lexVars>>

NextProcess == AddResultFile \/ ProcessHackernews

SpecProcess == InitProcess /\ [][NextProcess]_vars

\* the article ids in file f of dir
IdsIn(dir, f) ==
    IF f \in DOMAIN dir /\ dir[f].readable
    THEN {article_id(a) : a \in Range(dir[f].articles)} \ {<<>>}
    ELSE {}

\* the files of the group of query_id that the run deleted
DeletedSources(dir, after, query_id) ==
    {f \in DOMAIN dir \ DOMAIN after :
        ~is_consolidated(f) /\ query_id_of(f) = query_id}

\* every unlink of the run comes after the write of the consolidated file
\* of the group of the file
WrittenBeforeUnlink(ops) ==
    \A i \in 1..Len(ops) :
        ops[i].op = "unlink" =>
            \E j \in 1..(i - 1) :
                /\ ops[j].op = "write"
                /\ ops[j].name = ConsolidatedName(query_id_of(ops[i].name))

\* C30: across any sequence of runs of process_hackernews without dry-run,
\* with new result files added between runs, every article id that was in a
\* source file deleted by a run, or in the query's consolidated file before
\* the run, is in that query's consolidated file after the run; and no
\* source file is deleted before the consolidated file has been written.
C30_NeverLosesArticle ==
    [][ (dd'.op = "process_hackernews" /\ ~dd'.dry_run) =>
            /\ \A q \in ProcessQueryIds :
                  /\ \A f \in DeletedSources(fs, fs', q) :
                        IdsIn(fs, f) \subseteq IdsIn(fs', ConsolidatedName(q))
                  /\ IdsIn(fs, ConsolidatedName(q))
                        \subseteq IdsIn(fs', ConsolidatedName(q))
            /\ WrittenBeforeUnlink(dd'.ops)
      ]_vars

=============================================================================
